---- MODULE Spec2Model ----
(***************************************************************************)
(* A model of the SOL formatter: the filename classifier, the grade        *)
(* resolver, the content extraction and the standard test of SOLParser     *)
(* (src/sol_formatter/parser.py), the structured output validator of       *)
(* OpenAIExtractor (src/sol_formatter/openai_extractor.py), and the batch  *)
(* loops of OpenAIExtractor.extract_batch and src/batch_process.py.        *)
(*                                                                         *)
(* Python str values are TLA+ strings; a character is a string of length   *)
(* one, and s[i] is written At(s, i).                                      *)
(***************************************************************************)
EXTENDS Integers, Sequences, FiniteSets, TLC

VARIABLES
    filename,      \* the argument of SOLParser._parse_filename
    metadata,      \* its return value, NotCalled before the call
    gl_n,          \* the document number whose text is passed to _get_grade_level
    gl_num,        \* the num argument of SOLParser._get_grade_level (a str)
    gl_subject,    \* its subject argument
    grade_level,   \* its return value, NotCalled before the call
    data,          \* the argument of OpenAIExtractor.validate_output
    outcome,       \* how the call ended, NotCalled before the call
    std_text,      \* the argument of SOLParser._is_standard
    std_more,      \* a text put behind std_text for a second call
    std_result,    \* _is_standard(std_text), NotCalled before the call
    std_more_result, \* _is_standard(std_text + std_more), NotCalled before
    ex_doc,        \* the doc argument of SOLParser._extract_content
    content,       \* its return value, NotCalled before the call
    mode,          \* which batch loop runs: "openai" is
                   \* OpenAIExtractor.extract_batch, "parser" is
                   \* process_all_documents, "none" is neither
    file_paths,    \* the documents of the batch, in list order
    save_raw_text, \* the save_raw_text argument of extract_batch
    pc,            \* the statement the batch is at
    idx,           \* the loop index, from 1
    result,        \* the result of the document being processed
    results,       \* results (extract_batch), all_results (batch_process)
    successful,    \* the counter of successes
    failed,        \* the counter of failures
    total_tokens,  \* the sum of the tokens_used added so far
    combined,      \* the combined output written, NotCalled before
    attempts,      \* the indices whose loop body was entered, in order
    calls,         \* the indices for which a model call was issued, in order
    in_flight,     \* the number of model calls issued and not yet ended
    text_ok,       \* the indices whose text extraction succeeded
    raw_failed,    \* the indices whose raw text could not be saved
    parser,        \* a SOLParser object: its attribute current_doc
    parsed,        \* the arguments of its parse_document calls, in order
    returned,      \* the records those calls returned, in order
    csv_data,      \* the data argument of SOLParser.save_csv
    csv_file,      \* the text of the file it wrote, NotCalled before
    sd_file_path,  \* the file_path argument of extract_structured_data
    sd_model,      \* self.model of the extractor
    sd_temperature, \* the temperature argument
    sd_usage,      \* response.usage of the model's response
    sd_loaded,     \* what json.loads made of the response's content
    sd_result,     \* how extract_structured_data ended, NotCalled before
    flat_doc,      \* the document that extract_text_from_docx reads
    flat_text,      \* the text it returns, NotCalled before the call
    uploaded_files, \* the files handed to app.process_documents
    up_parser,     \* its SOLParser object
    up_pc,         \* the statement process_documents is at
    up_idx,        \* the position of the loop in uploaded_files, from 1
    tmp_path,      \* the path of the temporary copy, NotCalled before it
    all_results,   \* the records appended so far
    parsed_uploads \* for each of them, the upload and the path it was read at

\* The value of a result variable before the operation has run.
NotCalled == [called |-> FALSE]

standardVars == <<std_text, std_more, std_result, std_more_result>>

extractVars == <<ex_doc, content>>

batchVars == <<mode, file_paths, save_raw_text, pc, idx, result, results,
               successful, failed, total_tokens, combined, attempts, calls,
               in_flight, text_ok, raw_failed>>

\* the variables of the operations modelled further down
parseVars == <<parser, parsed, returned>>

csvVars == <<csv_data, csv_file>>

\* the variables of the operations modelled last
structuredVars == <<sd_file_path, sd_model, sd_temperature, sd_usage,
                    sd_loaded, sd_result>>

flatVars == <<flat_doc, flat_text>>

uploadVars == <<uploaded_files, up_parser, up_pc, up_idx, tmp_path,
                all_results, parsed_uploads>>

lateVars == <<csvVars, structuredVars, flatVars, uploadVars>>

moreVars == <<standardVars, extractVars, batchVars, parseVars, lateVars>>

vars == <<filename, metadata, gl_n, gl_num, gl_subject, grade_level, data,
          outcome, moreVars>>

IdleStandard ==
    /\ std_text = ""
    /\ std_more = ""
    /\ std_result = NotCalled
    /\ std_more_result = NotCalled

\* no paragraphs and no tables
EmptyDocument == [paragraphs |-> <<>>, tables |-> <<>>]

IdleExtract ==
    /\ ex_doc = EmptyDocument
    /\ content = NotCalled

IdleBatch ==
    /\ mode = "none"
    /\ file_paths = <<>>
    /\ save_raw_text = FALSE
    /\ pc = "done"
    /\ idx = 1
    /\ result = NotCalled
    /\ results = <<>>
    /\ successful = 0
    /\ failed = 0
    /\ total_tokens = 0
    /\ combined = NotCalled
    /\ attempts = <<>>
    /\ calls = <<>>
    /\ in_flight = 0
    /\ text_ok = {}
    /\ raw_failed = {}

\* SOLParser.__init__: self.current_doc = None
NewParser == [current_doc |-> [kind |-> "null"]]

IdleParse ==
    /\ parser = NewParser
    /\ parsed = <<>>
    /\ returned = <<>>

IdleCsv ==
    /\ csv_data = NotCalled
    /\ csv_file = NotCalled

IdleStructured ==
    /\ sd_file_path = ""
    /\ sd_model = ""
    /\ sd_temperature = ""
    /\ sd_usage = NotCalled
    /\ sd_loaded = [kind |-> "null"]
    /\ sd_result = NotCalled

IdleFlat ==
    /\ flat_doc = EmptyDocument
    /\ flat_text = NotCalled

IdleUpload ==
    /\ uploaded_files = <<>>
    /\ up_parser = NewParser
    /\ up_pc = "start"
    /\ up_idx = 1
    /\ tmp_path = NotCalled
    /\ all_results = <<>>
    /\ parsed_uploads = <<>>

IdleLate == IdleCsv /\ IdleStructured /\ IdleFlat /\ IdleUpload

IdleMore == IdleStandard /\ IdleExtract /\ IdleBatch /\ IdleParse /\ IdleLate

(***************************************************************************)
(* Bounds of the model.                                                    *)
(***************************************************************************)
\* Document numbers 0..MaxNumber are given to _get_grade_level.
MaxNumber == 120
\* Up to MaxPad leading zeros in front of a document number.
MaxPad == 1
\* Document numbers 0..MaxFileNumber appear in the classified filenames.
MaxFileNumber == 19
\* A validated document has at most MaxEntries strand and standard entries
\* in all.
MaxEntries == 3

(***************************************************************************)
(* Python str and int primitives.                                          *)
(***************************************************************************)
At(s, i) == SubSeq(s, i, i)

DigitChars == {"0", "1", "2", "3", "4", "5", "6", "7", "8", "9"}

\* string.whitespace restricted to the characters a filename is drawn from
SpaceChars == {" ", "\t", "\n"}

DigitValue(ch) ==
    CHOOSE d \in 0..9 : At("0123456789", d + 1) = ch

\* int(num) for a str of decimal digits
RECURSIVE int(_)
int(num) ==
    IF Len(num) = 0 THEN 0
    ELSE int(SubSeq(num, 1, Len(num) - 1)) * 10 + DigitValue(At(num, Len(num)))

\* str(n), the text an f-string puts for a non-negative int
RECURSIVE str(_)
str(n) ==
    IF n < 10 THEN At("0123456789", n + 1)
    ELSE str(n \div 10) \o At("0123456789", (n % 10) + 1)

(***************************************************************************)
(* re.match for the regular expressions of parser.py.  A pattern is a      *)
(* sequence of elements: a literal text, or a character class repeated     *)
(* lo..hi times (hi ignored when unbounded), greedy or lazy, capturing or  *)
(* not.  The matcher backtracks in the order Python's does, so the groups  *)
(* are those of the match Python reports.                                  *)
(***************************************************************************)
Lit(text) == [k |-> "lit", text |-> text]

\* cls+ (greedy) and cls+? (lazy)
Plus(cls, greedy, cap) ==
    [k |-> "rep", cls |-> cls, lo |-> 1, hi |-> 1, unbounded |-> TRUE,
     greedy |-> greedy, cap |-> cap]

\* cls{n}
Times(cls, n, cap) ==
    [k |-> "rep", cls |-> cls, lo |-> n, hi |-> n, unbounded |-> FALSE,
     greedy |-> TRUE, cap |-> cap]

\* cls{lo,hi}, and cls? as cls{0,1}
Range(cls, lo, hi, cap) ==
    [k |-> "rep", cls |-> cls, lo |-> lo, hi |-> hi, unbounded |-> FALSE,
     greedy |-> TRUE, cap |-> cap]

UpperChars ==
    {"A", "B", "C", "D", "E", "F", "G", "H", "I", "J", "K", "L", "M",
     "N", "O", "P", "Q", "R", "S", "T", "U", "V", "W", "X", "Y", "Z"}

LowerChars ==
    {"a", "b", "c", "d", "e", "f", "g", "h", "i", "j", "k", "l", "m",
     "n", "o", "p", "q", "r", "s", "t", "u", "v", "w", "x", "y", "z"}

\* \d, \s, . (any character but a newline), [A-Z] and [a-z]
InClass(cls, ch) ==
    CASE cls = "d" -> ch \in DigitChars
      [] cls = "s" -> ch \in SpaceChars
      [] cls = "any" -> ch # "\n"
      [] cls = "upper" -> ch \in UpperChars
      [] cls = "lower" -> ch \in LowerChars

\* the length of the run of cls characters of s that starts at position pos
RECURSIVE RunLength(_, _, _)
RunLength(cls, s, pos) ==
    IF pos <= Len(s) /\ InClass(cls, At(s, pos))
    THEN 1 + RunLength(cls, s, pos + 1)
    ELSE 0

NoMatch == [ok |-> FALSE, groups |-> <<>>]

Min(a, b) == IF a <= b THEN a ELSE b

RECURSIVE MatchHere(_, _, _, _), TryCount(_, _, _, _, _, _)
\* match elements i.. of pat against s from position pos
MatchHere(pat, i, s, pos) ==
    IF i > Len(pat) THEN [ok |-> TRUE, groups |-> <<>>]
    ELSE LET e == pat[i] IN
         IF e.k = "lit"
         THEN IF pos + Len(e.text) - 1 <= Len(s)
                 /\ SubSeq(s, pos, pos + Len(e.text) - 1) = e.text
              THEN MatchHere(pat, i + 1, s, pos + Len(e.text))
              ELSE NoMatch
         ELSE LET run == RunLength(e.cls, s, pos)
                  top == IF e.unbounded THEN run ELSE Min(run, e.hi)
              IN  IF top < e.lo THEN NoMatch
                  ELSE TryCount(pat, i, s, pos,
                                IF e.greedy THEN top ELSE e.lo, top)

\* element i of pat takes n characters; on failure of the rest, the next
\* count in the element's order (fewer if greedy, more if lazy)
TryCount(pat, i, s, pos, n, top) ==
    LET e == pat[i]
        rest == MatchHere(pat, i + 1, s, pos + n)
    IN  IF rest.ok
        THEN IF e.cap
             THEN [ok |-> TRUE,
                   groups |-> <<SubSeq(s, pos, pos + n - 1)>> \o rest.groups]
             ELSE rest
        ELSE IF e.greedy
             THEN IF n - 1 >= e.lo
                  THEN TryCount(pat, i, s, pos, n - 1, top)
                  ELSE NoMatch
             ELSE IF n + 1 <= top
                  THEN TryCount(pat, i, s, pos, n + 1, top)
                  ELSE NoMatch

\* re.match(pattern, string): anchored at the start, not at the end
re_match(pattern, string) == MatchHere(pattern, 1, string, 1)

(***************************************************************************)
(* SOLParser._parse_filename and SOLParser._get_grade_level.               *)
(***************************************************************************)
\* r"(\d+)-(.+?)-(\d{4})-Approved-Math-SOL\.docx"
sol_pattern ==
    << Plus("d", TRUE, TRUE), Lit("-"), Plus("any", FALSE, TRUE), Lit("-"),
       Times("d", 4, TRUE), Lit("-Approved-Math-SOL.docx") >>

\* r"(\d+)\.\s+Grade\s+(\d+)\s+Mathematics\s+Instructional\s+Guide\.docx"
guide_pattern ==
    << Plus("d", TRUE, TRUE), Lit("."), Plus("s", TRUE, FALSE), Lit("Grade"),
       Plus("s", TRUE, FALSE), Plus("d", TRUE, TRUE), Plus("s", TRUE, FALSE),
       Lit("Mathematics"), Plus("s", TRUE, FALSE), Lit("Instructional"),
       Plus("s", TRUE, FALSE), Lit("Guide.docx") >>

\* r"(\d+)-(.+?)-Understanding\s+the\s+Standards\.docx"
understanding_pattern ==
    << Plus("d", TRUE, TRUE), Lit("-"), Plus("any", FALSE, TRUE),
       Lit("-Understanding"), Plus("s", TRUE, FALSE), Lit("the"),
       Plus("s", TRUE, FALSE), Lit("Standards.docx") >>

\* r"(\d+)\.\s+(.+?)\s+Mathematics\s+Instructional\s+Guide\.docx"
subject_guide_pattern ==
    << Plus("d", TRUE, TRUE), Lit("."), Plus("s", TRUE, FALSE),
       Plus("any", FALSE, TRUE), Plus("s", TRUE, FALSE), Lit("Mathematics"),
       Plus("s", TRUE, FALSE), Lit("Instructional"), Plus("s", TRUE, FALSE),
       Lit("Guide.docx") >>

subject_map(n) ==
    CASE n = 9 -> "Algebra 1"
      [] n = 10 -> "Geometry"
      [] n = 11 -> "AFDA"
      [] n = 12 -> "Algebra 2"
      [] n = 13 -> "Trigonometry"
      [] n = 14 -> "Computational Mathematics"
      [] n = 15 -> "Probability & Statistics"
      [] n = 16 -> "Discrete Mathematics"
      [] n = 17 -> "Mathematical Analysis"
      [] n = 18 -> "Data Science"

\* _get_grade_level keeping a subject that is one of the table's names
_get_grade_level_named_subject(num, subject) ==
    LET n == int(num) IN
    IF \E k \in 9..18 : subject = subject_map(k) THEN subject
    ELSE IF 1 <= n /\ n <= 8 THEN "Grade " \o str(n)
    ELSE IF n \in 9..18 THEN subject_map(n)
    ELSE subject

\* _get_grade_level with the grade range one too wide (1 <= num <= 9)
_get_grade_level_wide_range(num, subject) ==
    LET n == int(num) IN
    IF 1 <= n /\ n <= 9 THEN "Grade " \o str(n)
    ELSE IF n \in 9..18 THEN subject_map(n)
    ELSE subject

_get_grade_level(num, subject) ==
    LET n == int(num) IN
    IF 1 <= n /\ n <= 8 THEN "Grade " \o str(n)
    ELSE IF n \in 9..18 THEN subject_map(n)
    ELSE subject

\* the record each branch of _parse_filename returns, from the groups
\* sol_record with the captured subject as grade_level, not its resolution
sol_record_raw_subject(g) ==
    [type |-> "Approved SOL Standards", number |-> g[1], subject |-> g[2],
     year |-> g[3], grade_level |-> g[2]]

sol_record(g) ==
    [type |-> "Approved SOL Standards", number |-> g[1], subject |-> g[2],
     year |-> g[3], grade_level |-> _get_grade_level(g[1], g[2])]

\* guide_record with grade_level resolved from the document number
guide_record_resolved(g) ==
    [type |-> "Instructional Guide", number |-> g[1], grade |-> g[2],
     subject |-> "Mathematics", grade_level |-> _get_grade_level(g[1], g[2])]

guide_record(g) ==
    [type |-> "Instructional Guide", number |-> g[1], grade |-> g[2],
     subject |-> "Mathematics", grade_level |-> "Grade " \o g[2]]

understanding_record(g) ==
    [type |-> "Understanding the Standards", number |-> g[1],
     subject |-> g[2], grade_level |-> _get_grade_level(g[1], g[2])]

\* subject_guide_record carrying the grade field of the grade guide branch
subject_guide_record_with_grade(g) ==
    [type |-> "Instructional Guide", number |-> g[1], grade |-> g[2],
     subject |-> g[2], grade_level |-> _get_grade_level(g[1], g[2])]

subject_guide_record(g) ==
    [type |-> "Instructional Guide", number |-> g[1], subject |-> g[2],
     grade_level |-> _get_grade_level(g[1], g[2])]

unknown_record(name) == [type |-> "Unknown", filename |-> name]

\* _parse_filename trying the subject guide pattern before the grade guide one
_parse_filename_subject_guide_first(name) ==
    LET m1 == re_match(sol_pattern, name)
        m2 == re_match(guide_pattern, name)
        m3 == re_match(understanding_pattern, name)
        m4 == re_match(subject_guide_pattern, name)
    IN  IF m1.ok THEN sol_record(m1.groups)
        ELSE IF m4.ok THEN subject_guide_record(m4.groups)
        ELSE IF m3.ok THEN understanding_record(m3.groups)
        ELSE IF m2.ok THEN guide_record(m2.groups)
        ELSE unknown_record(name)

\* _parse_filename without the subject guide branch
_parse_filename_three_patterns(name) ==
    LET m1 == re_match(sol_pattern, name)
        m2 == re_match(guide_pattern, name)
        m3 == re_match(understanding_pattern, name)
    IN  IF m1.ok THEN sol_record(m1.groups)
        ELSE IF m2.ok THEN guide_record(m2.groups)
        ELSE IF m3.ok THEN understanding_record(m3.groups)
        ELSE unknown_record(name)

_parse_filename(name) ==
    LET m1 == re_match(sol_pattern, name)
        m2 == re_match(guide_pattern, name)
        m3 == re_match(understanding_pattern, name)
        m4 == re_match(subject_guide_pattern, name)
    IN  IF m1.ok THEN sol_record(m1.groups)
        ELSE IF m2.ok THEN guide_record(m2.groups)
        ELSE IF m3.ok THEN understanding_record(m3.groups)
        ELSE IF m4.ok THEN subject_guide_record(m4.groups)
        ELSE unknown_record(name)


(***************************************************************************)
(* The filenames the classifier is given: conforming names of the four     *)
(* forms, each with a document number, with and without extra characters   *)
(* in front and behind, and names that miss a form by a little.            *)
(***************************************************************************)
RECURSIVE Zeros(_)
Zeros(k) == IF k = 0 THEN "" ELSE "0" \o Zeros(k - 1)

FileNumbers == { Zeros(p) \o str(n) : p \in 0..MaxPad, n \in 0..MaxFileNumber }

ConformingBodies ==
    { "-Algebra-2023-Approved-Math-SOL.docx",
      "-Data-Science-2023-Approved-Math-SOL.docx",
      "-A-2016-2023-Approved-Math-SOL.docx",
      "-AFDA-Understanding the Standards.docx",
      "-Algebra-Understanding  the\tStandards.docx",
      "-X-Understanding the Standards.docx-2023-Approved-Math-SOL.docx",
      ". Grade 3 Mathematics Instructional Guide.docx",
      ". Grade 03 Mathematics Instructional Guide.docx",
      ".\tGrade  7\nMathematics  Instructional Guide.docx",
      ". Algebra 2 Mathematics Instructional Guide.docx",
      ". Biology Mathematics Instructional Guide.docx" }

Fronts == { "", "x", "7-B-" }

Tails == { "", "x", ".bak" }

NearMissNumbers == { "", "1", "12" }

NearMissBodies ==
    { "-2023-Approved-Math-SOL.docx",
      "--2023-Approved-Math-SOL.docx",
      "-Algebra-202-Approved-Math-SOL.docx",
      "-Algebra-12023-Approved-Math-SOL.docx",
      "-Algebra-2023-approved-Math-SOL.docx",
      "-Algebra-2023-Approved-Math-SOL.doc",
      "-Algebra-2023-Approved-Math-SOLxdocx",
      "-A\nB-2023-Approved-Math-SOL.docx",
      "-Algebra-2023-Approved-Math-SOL.docx",
      "-Algebra-Understanding the Standards.doc",
      "-Algebra-Understanding theStandards.docx",
      "-Understanding the Standards.docx",
      "-AFDA-Understanding the Standards.docx",
      ".Grade 3 Mathematics Instructional Guide.docx",
      " Grade 3 Mathematics Instructional Guide.docx",
      ". Grade 3 Mathematics Instructional Guide.doc",
      ". Grade 3 Mathematics Instructional Guide.docx",
      ". Grade three Mathematics Instructional Guide.docx",
      ". Grade 3a Mathematics Instructional Guide.docx",
      ". grade 3 Mathematics Instructional Guide.docx",
      ".  Mathematics Instructional Guide.docx",
      ". A\nB Mathematics Instructional Guide.docx",
      ". Algebra 2 Mathematics Instructional Guide",
      ". Algebra 2 Mathematics Instructional.docx",
      ".docx",
      "" }

Filenames ==
    { front \o num \o body \o tail :
        front \in Fronts, num \in FileNumbers,
        body \in ConformingBodies, tail \in Tails }
    \cup { num \o body : num \in NearMissNumbers, body \in NearMissBodies }

\* the subject arguments given to _get_grade_level
Subjects == { "Biology", "X", "" }

(***************************************************************************)
(* The classifier: one call of _parse_filename on a filename.              *)
(***************************************************************************)
IdleGradeLevel ==
    /\ gl_n = 0
    /\ gl_num = "0"
    /\ gl_subject = ""
    /\ grade_level = NotCalled

IdleClassify ==
    /\ filename = ""
    /\ metadata = NotCalled

IdleValidate ==
    /\ data = [kind |-> "null"]
    /\ outcome = NotCalled

InitClassify ==
    /\ filename \in Filenames
    /\ metadata = NotCalled
    /\ IdleGradeLevel
    /\ IdleValidate
    /\ IdleMore

ParseFilename ==
    /\ metadata = NotCalled
    /\ metadata' = _parse_filename(filename)
    /\ UNCHANGED <<filename, gl_n, gl_num, gl_subject, grade_level, data, outcome,
                   moreVars>>

NextClassify == ParseFilename

SpecClassify == InitClassify /\ [][NextClassify]_vars

(***************************************************************************)
(* The grade resolver: one call of _get_grade_level on the text of a       *)
(* document number and a subject.                                          *)
(***************************************************************************)
InitGradeLevel ==
    /\ gl_n \in 0..MaxNumber
    /\ gl_num \in { Zeros(p) \o str(gl_n) : p \in 0..MaxPad }
    /\ gl_subject \in Subjects
    /\ grade_level = NotCalled
    /\ IdleClassify
    /\ IdleValidate
    /\ IdleMore

GetGradeLevel ==
    /\ grade_level = NotCalled
    /\ grade_level' = [called |-> TRUE, value |-> _get_grade_level(gl_num, gl_subject)]
    /\ UNCHANGED <<filename, metadata, gl_n, gl_num, gl_subject, data, outcome,
                   moreVars>>

NextGradeLevel == GetGradeLevel

SpecGradeLevel == InitGradeLevel /\ [][NextGradeLevel]_vars


(***************************************************************************)
(* JSON values, as json.loads builds them: dict, list, str, int, bool and  *)
(* None.  The items of a dict are a function from its keys.                *)
(***************************************************************************)
Dict(f) == [kind |-> "dict", items |-> f]
List(q) == [kind |-> "list", items |-> q]
Str(t) == [kind |-> "str", text |-> t]
Number(n) == [kind |-> "int", value |-> n]
Bool(b) == [kind |-> "bool", value |-> b]
None == [kind |-> "null"]

\* a dict with the keys K of f
Only(f, K) == Dict([k \in K |-> f[k]])

(***************************************************************************)
(* The Python operations validate_output applies to its argument.  Each    *)
(* gives the exception it raises, or NoException.                          *)
(***************************************************************************)
NoException == "none"

\* key in x, where it does not raise
Contains(key, x) ==
    CASE x.kind = "dict" -> key \in DOMAIN x.items
      [] x.kind = "list" ->
            \E j \in 1..Len(x.items) :
                x.items[j].kind = "str" /\ x.items[j].text = key
      [] x.kind = "str" ->
            \E j \in 1..(Len(x.text) - Len(key) + 1) :
                SubSeq(x.text, j, j + Len(key) - 1) = key

\* assert key in x
assert_in(key, x) ==
    IF x.kind \in {"int", "bool", "null"} THEN "TypeError"
    ELSE IF Contains(key, x) THEN NoException
    ELSE "AssertionError"

\* x[key], for a str key
subscript(x, key) ==
    IF x.kind # "dict" THEN "TypeError"
    ELSE IF key \in DOMAIN x.items THEN NoException
    ELSE "KeyError"

\* assert isinstance(x, list)
assert_list(x) == IF x.kind = "list" THEN NoException ELSE "AssertionError"

\* statement first, then, unless it raised, the statements rest
Then(first, rest) == IF first = NoException THEN rest ELSE first

(***************************************************************************)
(* OpenAIExtractor.validate_output.                                        *)
(***************************************************************************)
\* the body of the loop over strand["standards"], without its last assert
check_standard_two_keys(standard) ==
    Then(assert_in("standard_id", standard),
         assert_in("standard_statement", standard))

\* the body of the loop over strand["standards"]
check_standard(standard) ==
    Then(assert_in("standard_id", standard),
    Then(assert_in("standard_statement", standard),
         assert_in("knowledge_and_skills", standard)))

RECURSIVE check_standards(_, _)
check_standards(standards, j) ==
    IF j > Len(standards) THEN NoException
    ELSE Then(check_standard(standards[j]), check_standards(standards, j + 1))

\* the body of the loop over data["strands"], without the loop over the
\* standards of the strand
check_strand_without_loop(strand) ==
    Then(assert_in("strand_code", strand),
    Then(assert_in("strand_name", strand),
    Then(assert_in("standards", strand),
    Then(subscript(strand, "standards"),
         assert_list(strand.items["standards"])))))

\* the body of the loop over data["strands"]
check_strand(strand) ==
    Then(assert_in("strand_code", strand),
    Then(assert_in("strand_name", strand),
    Then(assert_in("standards", strand),
    Then(subscript(strand, "standards"),
    Then(assert_list(strand.items["standards"]),
         check_standards(strand.items["standards"].items, 1))))))

RECURSIVE check_strands(_, _)
check_strands(strands, i) ==
    IF i > Len(strands) THEN NoException
    ELSE Then(check_strand(strands[i]), check_strands(strands, i + 1))

\* the try block: the exception that leaves it, or NoException
validate_try(d) ==
    Then(assert_in("document_metadata", d),
    Then(assert_in("strands", d),
    Then(subscript(d, "strands"),
    Then(assert_list(d.items["strands"]),
         check_strands(d.items["strands"].items, 1)))))

\* an except clause that names AssertionError and KeyError only
handled_without_TypeError == {"AssertionError", "KeyError"}

\* except (AssertionError, KeyError, TypeError)
handled == {"AssertionError", "KeyError", "TypeError"}

Returned(b) == [called |-> TRUE, how |-> "return", value |-> b]
Raised(e) == [called |-> TRUE, how |-> "raise", exception |-> e]

validate_output(d) ==
    LET e == validate_try(d) IN
    IF e = NoException THEN Returned(TRUE)
    ELSE IF e \in handled THEN Returned(FALSE)
    ELSE Raised(e)

(***************************************************************************)
(* The documents the validator is given: every value of every JSON kind at *)
(* the top level, at strands, at a strand entry, at standards and at a     *)
(* standard entry, with strings and lists that hold the key names, in      *)
(* documents of at most MaxEntries strand and standard entries.            *)
(***************************************************************************)
StandardFields ==
    [standard_id |-> Str("1.NS.1"), standard_statement |-> Str("Count"),
     knowledge_and_skills |-> List(<<>>)]

\* a standard entry with all keys and the value ks at knowledge_and_skills
StandardWith(ks) ==
    Dict([StandardFields EXCEPT !.knowledge_and_skills = ks])

\* entries of knowledge_and_skills: an objective with its text, and one
\* without
ObjectiveWithText == Dict([objective_text |-> Str("Count to ten")])
ObjectiveWithoutText == Dict([action_verb |-> Str("count")])

StandardValues ==
    { Only(StandardFields, K) : K \in SUBSET DOMAIN StandardFields }
    \cup { StandardWith(List(<<ObjectiveWithText>>)),
           StandardWith(List(<<ObjectiveWithText, ObjectiveWithoutText>>)),
           StandardWith(Str("objective_text")) }
    \cup { Str("standard_id standard_statement knowledge_and_skills"),
           List(<<Str("standard_id"), Str("standard_statement"),
                  Str("knowledge_and_skills")>>),
           Number(1), None }

RECURSIVE StandardLists(_)
\* the lists of n standard entries
StandardLists(n) ==
    IF n = 0 THEN {<<>>}
    ELSE { <<v>> \o rest : v \in StandardValues, rest \in StandardLists(n - 1) }

StrandFields(standards) ==
    [strand_code |-> Str("NS"), strand_name |-> Str("X"), standards |-> standards]

\* strand entries without standard entries that are no mapping, or whose
\* standards is no list or is missing
OddStrands ==
    { Only(StrandFields(None), {"strand_code", "strand_name"}),
      Dict(StrandFields(Str("standards"))),
      Dict(StrandFields(Dict(<<>>))),
      Dict(StrandFields(Number(0))),
      Dict(StrandFields(Bool(TRUE))),
      Dict(StrandFields(None)),
      Str("strand_code strand_name standards"),
      List(<<Str("strand_code"), Str("strand_name"), Str("standards")>>),
      Number(1), None }

\* the strand entries that count c entries: themselves and c - 1 standards
StrandsOfCost(c) ==
    { Only(StrandFields(List(q)), K) :
        q \in StandardLists(c - 1),
        K \in { {"strand_code", "strand_name", "standards"},
                {"strand_name", "standards"},
                {"strand_code", "standards"} } }
    \cup (IF c = 1 THEN OddStrands ELSE {})

DocumentFields(strands) ==
    [document_metadata |-> Dict(<<>>), strands |-> strands]

OddDocuments ==
    { Only(DocumentFields(None), {"document_metadata"}),
      Dict(<<>>),
      Dict(DocumentFields(Str("strands"))),
      Dict(DocumentFields(Dict(<<>>))),
      Dict(DocumentFields(Number(0))),
      Dict(DocumentFields(None)),
      Str("document_metadata strands"),
      Str("strands"),
      List(<<Str("document_metadata"), Str("strands")>>),
      List(<<>>),
      Number(1), Bool(FALSE), None }

(***************************************************************************)
(* The validator: one call of validate_output on a document.               *)
(***************************************************************************)
RECURSIVE InitStrands(_, _)
\* data is a document whose strands begin with chosen and go on with
\* strand entries that count at most budget entries in all, with or
\* without the key document_metadata
InitStrands(chosen, budget) ==
    \/ \E K \in { {"document_metadata", "strands"}, {"strands"} } :
          data = Only(DocumentFields(List(chosen)), K)
    \/ \E c \in 1..budget : \E st \in StrandsOfCost(c) :
          InitStrands(Append(chosen, st), budget - c)

InitValidate ==
    /\ (data \in OddDocuments \/ InitStrands(<<>>, MaxEntries))
    /\ outcome = NotCalled
    /\ IdleClassify
    /\ IdleGradeLevel
    /\ IdleMore

ValidateOutput ==
    /\ outcome = NotCalled
    /\ outcome' = validate_output(data)
    /\ UNCHANGED <<filename, metadata, gl_n, gl_num, gl_subject, grade_level, data,
                   moreVars>>

NextValidate == ValidateOutput

SpecValidate == InitValidate /\ [][NextValidate]_vars


(***************************************************************************)
(* What it means for a text to have the form of a pattern, stated without  *)
(* the matcher: the text (exact), or a beginning of it (not exact), splits *)
(* into consecutive pieces, one per element, each a text of its element.   *)
(***************************************************************************)
AllInClass(cls, s, from, to) ==
    \A j \in from..to : InClass(cls, At(s, j))

RECURSIVE Decomposes(_, _, _, _, _)
Decomposes(pat, i, s, pos, exact) ==
    IF i > Len(pat) THEN (~exact \/ pos = Len(s) + 1)
    ELSE LET e == pat[i] IN
         IF e.k = "lit"
         THEN /\ pos + Len(e.text) - 1 <= Len(s)
              /\ SubSeq(s, pos, pos + Len(e.text) - 1) = e.text
              /\ Decomposes(pat, i + 1, s, pos + Len(e.text), exact)
         ELSE \E n \in e.lo..(Len(s) - pos + 1) :
                 /\ e.unbounded \/ n <= e.hi
                 /\ AllInClass(e.cls, s, pos, pos + n - 1)
                 /\ Decomposes(pat, i + 1, s, pos + n, exact)

FilenamePatterns ==
    <<sol_pattern, guide_pattern, understanding_pattern, subject_guide_pattern>>

\* a beginning of name has the form of pattern k
HasFormAtStart(k, name) == Decomposes(FilenamePatterns[k], 1, name, 1, FALSE)

\* name as a whole has the form of pattern k
HasFormExactly(k, name) == Decomposes(FilenamePatterns[k], 1, name, 1, TRUE)

FormsAtStart(name) == { k \in 1..4 : HasFormAtStart(k, name) }

Lowest(S) == CHOOSE k \in S : \A j \in S : k <= j

IsDigits(s) == Len(s) >= 1 /\ \A j \in 1..Len(s) : At(s, j) \in DigitChars

IsPrefix(p, s) == Len(p) <= Len(s) /\ SubSeq(s, 1, Len(p)) = p

Classified == metadata # NotCalled

(***************************************************************************)
(* C1: _parse_filename returns the record of the lowest-numbered pattern   *)
(* (1 Approved-Math-SOL, 2 grade guide, 3 Understanding the Standards,     *)
(* 4 subject guide) that matches the filename, also when a later pattern   *)
(* matches it too, and the Unknown record when none matches.               *)
(***************************************************************************)
C1_RecordOf(k, name) ==
    LET g == re_match(FilenamePatterns[k], name).groups IN
    CASE k = 1 -> sol_record(g)
      [] k = 2 -> guide_record(g)
      [] k = 3 -> understanding_record(g)
      [] k = 4 -> subject_guide_record(g)

C1_FirstMatchWins ==
    Classified =>
        LET matching == { k \in 1..4 : re_match(FilenamePatterns[k], filename).ok }
        IN  /\ matching = FormsAtStart(filename)
            /\ IF matching = {}
               THEN metadata = unknown_record(filename)
               ELSE metadata = C1_RecordOf(Lowest(matching), filename)

\* a filename that two patterns match, with different records, classified
C1_Witness ==
    /\ Classified
    /\ \E j, k \in FormsAtStart(filename) :
          /\ j < k
          /\ j = Lowest(FormsAtStart(filename))
          /\ metadata = C1_RecordOf(j, filename)
          /\ metadata # C1_RecordOf(k, filename)

(***************************************************************************)
(* C2: a filename "N. Grade M Mathematics Instructional Guide.docx" with   *)
(* digit sequences N and M gets the grade guide record: type Instructional *)
(* Guide, subject Mathematics, grade_level the text "Grade M", not the     *)
(* resolution of N.                                                        *)
(***************************************************************************)
C2_GradeGuideName(N, M) ==
    N \o ". Grade " \o M \o " Mathematics Instructional Guide.docx"

C2_GradeGuideWins ==
    Classified =>
        \A a, b \in 1..Len(filename) :
            LET N == SubSeq(filename, 1, a)
                M == SubSeq(filename, a + 9, a + 8 + b)
            IN  ( /\ a + 8 + b <= Len(filename)
                  /\ IsDigits(N)
                  /\ IsDigits(M)
                  /\ filename = C2_GradeGuideName(N, M) )
                => /\ metadata.type = "Instructional Guide"
                   /\ metadata.subject = "Mathematics"
                   /\ metadata.grade_level = "Grade " \o M

\* N = 9, M = 3: both guide patterns match, the result says Grade 3
C2_Witness ==
    /\ Classified
    /\ filename = C2_GradeGuideName("9", "3")
    /\ {2, 4} \subseteq FormsAtStart(filename)
    /\ metadata.grade_level = "Grade 3"
    /\ C1_RecordOf(4, filename).grade_level = "Algebra 1"

(***************************************************************************)
(* C3: the returned type is Unknown exactly when none of the four patterns *)
(* matches, and then the record holds the type and the filename (the input *)
(* filename) and nothing else.                                             *)
(***************************************************************************)
C3_UnknownIffNoMatch ==
    Classified =>
        /\ (metadata.type = "Unknown") <=> (FormsAtStart(filename) = {})
        /\ metadata.type = "Unknown" =>
              /\ DOMAIN metadata = {"type", "filename"}
              /\ metadata.filename = filename

\* both sides: a classified name of no form, and one of the last form only
C3_Witness ==
    /\ Classified
    /\ \/ /\ FormsAtStart(filename) = {}
          /\ filename # ""
          /\ metadata.type = "Unknown"
       \/ /\ FormsAtStart(filename) = {4}
          /\ metadata.type = "Instructional Guide"

(***************************************************************************)
(* C4: a filename that is not, as a whole, of one of the four forms (for   *)
(* example a conforming name with characters after its ".docx" or in front *)
(* of it) is classified Unknown.                                           *)
(***************************************************************************)
C4_ExactForms(name) == { k \in 1..4 : HasFormExactly(k, name) }

C4_InexactIsUnknown ==
    (Classified /\ C4_ExactForms(filename) = {}) => metadata.type = "Unknown"

(***************************************************************************)
(* C5: a filename matching pattern 1 gets type Approved SOL Standards,     *)
(* with number, subject and four-digit year the parts the pattern          *)
(* captures (the leading digits, the shortest subject that lets the rest   *)
(* match, the four digits before "-Approved-Math-SOL.docx") and            *)
(* grade_level the resolution of that number and subject.                  *)
(***************************************************************************)
C5_SolName(number, subject, year) ==
    number \o "-" \o subject \o "-" \o year \o "-Approved-Math-SOL.docx"

\* number, subject, year are a way to read a beginning of name as pattern 1
C5_Reads(name, number, subject, year) ==
    /\ IsDigits(number)
    /\ Len(subject) >= 1
    /\ \A j \in 1..Len(subject) : At(subject, j) # "\n"
    /\ IsDigits(year)
    /\ Len(year) = 4
    /\ IsPrefix(C5_SolName(number, subject, year), name)

C5_ApprovedStandards ==
    (Classified /\ HasFormAtStart(1, filename)) =>
        /\ metadata.type = "Approved SOL Standards"
        /\ {"number", "subject", "year", "grade_level"} \subseteq DOMAIN metadata
        /\ C5_Reads(filename, metadata.number, metadata.subject, metadata.year)
        /\ \A n \in 1..(Len(metadata.subject) - 1) :
              LET shorter == SubSeq(metadata.subject, 1, n)
                  from == Len(metadata.number) + 1 + n + 2
              IN  ~ ( /\ from + 3 <= Len(filename)
                      /\ C5_Reads(filename, metadata.number, shorter,
                                  SubSeq(filename, from, from + 3)) )
        /\ metadata.grade_level
              = _get_grade_level(metadata.number, metadata.subject)

\* a pattern-1 name whose number resolves to a label other than its subject
C5_Witness ==
    /\ Classified
    /\ filename = "12-A-2016-2023-Approved-Math-SOL.docx"
    /\ metadata.subject = "A-2016"
    /\ metadata.year = "2023"
    /\ metadata.grade_level = "Algebra 2"

(***************************************************************************)
(* C7, as the specification states it: a returned record has only fields   *)
(* of the DocumentMetadata shape (type, number, subject, year,             *)
(* grade_level, and filename when Unknown), and a record that is not       *)
(* Unknown has number, subject and grade_level.                            *)
(***************************************************************************)
C7_DeclaredFields(type) ==
    {"type", "number", "subject", "year", "grade_level"}
        \cup (IF type = "Unknown" THEN {"filename"} ELSE {})

C7_DeclaredShapeOnly ==
    Classified =>
        /\ DOMAIN metadata \subseteq C7_DeclaredFields(metadata.type)
        /\ metadata.type # "Unknown" =>
              {"number", "subject", "grade_level"} \subseteq DOMAIN metadata

(***************************************************************************)
(* C7, amended: a returned record has only fields of the DocumentMetadata  *)
(* shape, except that the record of pattern 2 (grade guide), and no other, *)
(* also has the field grade, holding the captured grade; a record that is  *)
(* not Unknown has number, subject and grade_level.                        *)
(***************************************************************************)
C7_ShapePlusGrade ==
    Classified =>
        LET forms == FormsAtStart(filename)
            byGradeGuide == forms # {} /\ Lowest(forms) = 2
        IN  /\ DOMAIN metadata \ C7_DeclaredFields(metadata.type)
                  = IF byGradeGuide THEN {"grade"} ELSE {}
            /\ byGradeGuide => metadata.grade_level = "Grade " \o metadata.grade
            /\ metadata.type # "Unknown" =>
                  {"number", "subject", "grade_level"} \subseteq DOMAIN metadata

\* a grade guide record with its grade field, and a subject guide record
\* without one
C7_Witness ==
    /\ Classified
    /\ filename = "1. Grade 03 Mathematics Instructional Guide.docx"
    /\ DOMAIN metadata = {"type", "number", "grade", "subject", "grade_level"}
    /\ metadata.grade = "03"

(***************************************************************************)
(* C6: _get_grade_level returns "Grade n" for a number n in 1..8, the      *)
(* table's label for n in 9..18, and the subject argument as it is for     *)
(* every other number (0, and above 18); it returns for every number.      *)
(***************************************************************************)
C6_Expected(n, subject) ==
    CASE n = 1 -> "Grade 1"
      [] n = 2 -> "Grade 2"
      [] n = 3 -> "Grade 3"
      [] n = 4 -> "Grade 4"
      [] n = 5 -> "Grade 5"
      [] n = 6 -> "Grade 6"
      [] n = 7 -> "Grade 7"
      [] n = 8 -> "Grade 8"
      [] n = 9 -> "Algebra 1"
      [] n = 10 -> "Geometry"
      [] n = 11 -> "AFDA"
      [] n = 12 -> "Algebra 2"
      [] n = 13 -> "Trigonometry"
      [] n = 14 -> "Computational Mathematics"
      [] n = 15 -> "Probability & Statistics"
      [] n = 16 -> "Discrete Mathematics"
      [] n = 17 -> "Mathematical Analysis"
      [] n = 18 -> "Data Science"
      [] OTHER -> subject

C6_GradeLevelTable ==
    grade_level # NotCalled =>
        grade_level.value = C6_Expected(gl_n, gl_subject)

\* a number above the table, resolved to its subject
C6_Witness ==
    /\ grade_level # NotCalled
    /\ gl_n = 99
    /\ gl_subject = "Biology"
    /\ grade_level.value = "Biology"


(***************************************************************************)
(* C8: validate_output never raises: for every JSON value at the top level *)
(* and at every position of strands, strand entries, standards and         *)
(* standard entries, the call returns a boolean, and it returns False when *)
(* the try block raised.                                                   *)
(***************************************************************************)
Validated == outcome # NotCalled

C8_NeverRaises ==
    Validated =>
        /\ outcome.how = "return"
        /\ outcome.value \in BOOLEAN
        /\ validate_try(data) # NoException => outcome.value = FALSE

\* a call whose try block raised TypeError, and returned False
C8_Witness ==
    /\ Validated
    /\ data.kind = "dict"
    /\ validate_try(data) = "TypeError"
    /\ outcome = Returned(FALSE)

(***************************************************************************)
(* C9: when the strand and standard entries are mappings, validate_output  *)
(* returns True exactly when the top level has the keys document_metadata  *)
(* and strands, strands is a sequence, every strand has strand_code,       *)
(* strand_name and standards with standards a sequence, and every standard *)
(* has standard_id, standard_statement and knowledge_and_skills.           *)
(***************************************************************************)
C9_HasKeys(x, K) == x.kind = "dict" /\ K \subseteq DOMAIN x.items

\* the value at key of x is a sequence
C9_SequenceAt(x, key) == C9_HasKeys(x, {key}) /\ x.items[key].kind = "list"

C9_StrandsOf(d) ==
    IF C9_SequenceAt(d, "strands") THEN d.items["strands"].items ELSE <<>>

C9_StandardsOf(strand) ==
    IF C9_SequenceAt(strand, "standards")
    THEN strand.items["standards"].items ELSE <<>>

C9_EntriesAreMappings(d) ==
    \A i \in 1..Len(C9_StrandsOf(d)) :
        LET strand == C9_StrandsOf(d)[i] IN
        /\ strand.kind = "dict"
        /\ \A j \in 1..Len(C9_StandardsOf(strand)) :
              C9_StandardsOf(strand)[j].kind = "dict"

C9_WellFormed(d) ==
    /\ C9_HasKeys(d, {"document_metadata", "strands"})
    /\ C9_SequenceAt(d, "strands")
    /\ \A i \in 1..Len(C9_StrandsOf(d)) :
          LET strand == C9_StrandsOf(d)[i] IN
          /\ C9_HasKeys(strand, {"strand_code", "strand_name", "standards"})
          /\ C9_SequenceAt(strand, "standards")
          /\ \A j \in 1..Len(C9_StandardsOf(strand)) :
                C9_HasKeys(C9_StandardsOf(strand)[j],
                           {"standard_id", "standard_statement",
                            "knowledge_and_skills"})

C9_TrueIffWellFormed ==
    (Validated /\ C9_EntriesAreMappings(data)) =>
        (outcome = Returned(TRUE)) <=> C9_WellFormed(data)

\* a strand with an empty standards sequence after a strand with a
\* standard, accepted
C9_Witness ==
    /\ Validated
    /\ data = Dict(DocumentFields(List(
                 << Dict(StrandFields(List(<<Dict(StandardFields)>>))),
                    Dict(StrandFields(List(<<>>))) >>)))
    /\ outcome = Returned(TRUE)

(***************************************************************************)
(* C10: validate_output returns False when the top-level value, an entry   *)
(* of strands or an entry of a strand's standards is not a mapping.        *)
(***************************************************************************)
C10_HasNonMapping(d) ==
    \/ d.kind # "dict"
    \/ ~C9_EntriesAreMappings(d)

C10_NonMappingRejected ==
    (Validated /\ C10_HasNonMapping(data)) => outcome = Returned(FALSE)


(***************************************************************************)
(* C11: when validate_output returns True, every strand has strand_code    *)
(* and strand_name, every standard has standard_id and standard_statement, *)
(* and every objective under a standard's knowledge_and_skills has         *)
(* objective_text.                                                         *)
(***************************************************************************)
\* the entries of knowledge_and_skills of a standard entry
C11_ObjectivesOf(standard) ==
    IF C9_SequenceAt(standard, "knowledge_and_skills")
    THEN standard.items["knowledge_and_skills"].items ELSE <<>>

C11_RequiredFieldsPresent ==
    (Validated /\ outcome = Returned(TRUE)) =>
        \A i \in 1..Len(C9_StrandsOf(data)) :
            LET strand == C9_StrandsOf(data)[i] IN
            /\ C9_HasKeys(strand, {"strand_code", "strand_name"})
            /\ \A j \in 1..Len(C9_StandardsOf(strand)) :
                  LET standard == C9_StandardsOf(strand)[j] IN
                  /\ C9_HasKeys(standard, {"standard_id", "standard_statement"})
                  /\ \A k \in 1..Len(C11_ObjectivesOf(standard)) :
                        C9_HasKeys(C11_ObjectivesOf(standard)[k],
                                   {"objective_text"})

(***************************************************************************)
(* C12, as the specification states it: in a record that validate_output   *)
(* accepts, a strand may have no standards, but every standard has at      *)
(* least one objective in knowledge_and_skills.                            *)
(***************************************************************************)
C12_EveryStandardHasObjective ==
    (Validated /\ outcome = Returned(TRUE)) =>
        \A i \in 1..Len(C9_StrandsOf(data)) :
            \A j \in 1..Len(C9_StandardsOf(C9_StrandsOf(data)[i])) :
                Len(C11_ObjectivesOf(C9_StandardsOf(C9_StrandsOf(data)[i])[j])) >= 1

(***************************************************************************)
(* C12, amended: in a record that validate_output accepts, a strand may    *)
(* have no standards and a standard may have no objectives; every standard *)
(* entry only has to contain knowledge_and_skills: as a key when the entry *)
(* is a mapping, whatever the value at that key, as an element when it is  *)
(* a sequence, as a piece of text when it is a string.                     *)
(***************************************************************************)
C12_Holds(name, entry) ==
    \/ entry.kind = "dict" /\ name \in DOMAIN entry.items
    \/ entry.kind = "list" /\ Str(name) \in { entry.items[k] : k \in 1..Len(entry.items) }
    \/ entry.kind = "str" /\ \E k \in 1..Len(entry.text) :
                                  /\ k + Len(name) - 1 <= Len(entry.text)
                                  /\ SubSeq(entry.text, k, k + Len(name) - 1) = name

C12_KnowledgeAndSkillsPresent ==
    (Validated /\ outcome = Returned(TRUE)) =>
        \A i \in 1..Len(C9_StrandsOf(data)) :
            \A j \in 1..Len(C9_StandardsOf(C9_StrandsOf(data)[i])) :
                C12_Holds("knowledge_and_skills",
                          C9_StandardsOf(C9_StrandsOf(data)[i])[j])

\* accepted: a strand without standards after a strand whose standard has
\* an empty knowledge_and_skills
C12_Witness ==
    /\ Validated
    /\ outcome = Returned(TRUE)
    /\ Len(C9_StrandsOf(data)) = 2
    /\ C9_StandardsOf(C9_StrandsOf(data)[1]) = <<StandardWith(List(<<>>))>>
    /\ C9_StandardsOf(C9_StrandsOf(data)[2]) = <<>>


(***************************************************************************)
(* SOLParser._is_standard: does a text begin like a standard identifier.   *)
(***************************************************************************)
\* r"^[A-Z]{1,4}\.\d+"
letter_standard_pattern ==
    << Range("upper", 1, 4, FALSE), Lit("."), Plus("d", TRUE, FALSE) >>

\* r"^\d+\.\d+[a-z]?"
number_standard_pattern ==
    << Plus("d", TRUE, FALSE), Lit("."), Plus("d", TRUE, FALSE),
       Range("lower", 0, 1, FALSE) >>

standard_patterns == << letter_standard_pattern, number_standard_pattern >>

\* the letters of the first pattern without the upper limit of four
_is_standard_any_letters(text) ==
    \/ re_match(<< Plus("upper", TRUE, FALSE), Lit("."),
                   Plus("d", TRUE, FALSE) >>, text).ok
    \/ re_match(number_standard_pattern, text).ok

\* a third pattern that takes the identifiers of the extraction schema:
\* digits or one to four letters, a dot, letters, a dot and digits
_is_standard_with_schema_ids(text) ==
    \/ \E p \in 1..Len(standard_patterns) :
          re_match(standard_patterns[p], text).ok
    \/ re_match(<< Plus("d", TRUE, FALSE), Lit("."),
                   Plus("upper", TRUE, FALSE), Lit("."),
                   Plus("d", TRUE, FALSE) >>, text).ok
    \/ re_match(<< Range("upper", 1, 4, FALSE), Lit("."),
                   Plus("upper", TRUE, FALSE), Lit("."),
                   Plus("d", TRUE, FALSE) >>, text).ok

\* the loop returns True at the first pattern that matches at the start of
\* text, and False after the last
_is_standard(text) ==
    \E p \in 1..Len(standard_patterns) : re_match(standard_patterns[p], text).ok

\* n copies of the character ch
RECURSIVE Repeat(_, _)
Repeat(ch, n) == IF n = 0 THEN "" ELSE ch \o Repeat(ch, n - 1)

\* Runs of up to MaxLetters letters and up to MaxDigits digits begin a text.
MaxLetters == 5
MaxDigits == 2

\* what stands in front of the dot, the dot or what stands in its place,
\* and what follows
StandardHeads ==
    { Repeat("A", n) : n \in 0..MaxLetters }
    \cup { Repeat("1", n) : n \in 1..MaxDigits }
    \cup { "G", "AII", "PS", "Ab", "g", "1a", "A1", " G", " 1" }
StandardDots == { ".", "", "-", ". " }
StandardTails ==
    { "", "5", "10", "5a", "a", "x5", "5 Solve", ".5",
      "NS.1", "EO.1", "N.12 Count", "ns.1", "NS1" }

StandardTexts ==
    { h \o d \o t : h \in StandardHeads, d \in StandardDots, t \in StandardTails }

StandardSuffixes == { "", "0", "a", ".", " x", "\n", "Z.1" }

IdleFirst == IdleClassify /\ IdleGradeLevel /\ IdleValidate

InitStandard ==
    /\ std_text \in StandardTexts
    /\ std_more \in StandardSuffixes
    /\ std_result = NotCalled
    /\ std_more_result = NotCalled
    /\ IdleFirst
    /\ IdleExtract
    /\ IdleBatch
    /\ IdleParse
    /\ IdleLate

IsStandard ==
    /\ std_result = NotCalled
    /\ std_result' = Returned(_is_standard(std_text))
    /\ UNCHANGED <<filename, metadata, gl_n, gl_num, gl_subject, grade_level,
                   data, outcome, std_text, std_more, std_more_result,
                   extractVars, batchVars, parseVars, lateVars>>

IsStandardOfLongerText ==
    /\ std_more_result = NotCalled
    /\ std_more_result' = Returned(_is_standard(std_text \o std_more))
    /\ UNCHANGED <<filename, metadata, gl_n, gl_num, gl_subject, grade_level,
                   data, outcome, std_text, std_more, std_result,
                   extractVars, batchVars, parseVars, lateVars>>

NextStandard == IsStandard \/ IsStandardOfLongerText

SpecStandard == InitStandard /\ [][NextStandard]_vars

(***************************************************************************)
(* C17: _is_standard(text) is True exactly when text begins with one to    *)
(* four uppercase letters, a dot and a digit, or with one or more digits,  *)
(* a dot and a digit (a lowercase letter may follow and changes nothing).  *)
(* Only the beginning counts: if _is_standard(t) then _is_standard(t + u)  *)
(* for every u.  Five or more uppercase letters before the dot are         *)
(* rejected.                                                               *)
(***************************************************************************)
\* text begins with n characters of the class cls, a dot and a digit
C17_BeginsWith(text, cls, n) ==
    /\ n + 2 <= Len(text)
    /\ AllInClass(cls, text, 1, n)
    /\ At(text, n + 1) = "."
    /\ At(text, n + 2) \in DigitChars

C17_LooksLikeStandard(text) ==
    \/ \E n \in 1..4 : C17_BeginsWith(text, "upper", n)
    \/ \E n \in 1..Len(text) : C17_BeginsWith(text, "d", n)

C17_PrefixTest ==
    /\ std_result # NotCalled =>
          /\ std_result = Returned(C17_LooksLikeStandard(std_text))
          /\ (\E n \in 5..(Len(std_text) - 1) :
                  AllInClass("upper", std_text, 1, n) /\ At(std_text, n + 1) = ".")
                => std_result = Returned(FALSE)
    /\ (std_result = Returned(TRUE) /\ std_more_result # NotCalled) =>
          std_more_result = Returned(TRUE)

\* a text accepted for its four letters, accepted again with more text
\* behind it
C17_Witness ==
    /\ std_text = "AAAA.5"
    /\ std_more = "Z.1"
    /\ std_result = Returned(TRUE)
    /\ std_more_result = Returned(TRUE)

\* five letters before the dot: rejected
C17_WitnessFiveLetters ==
    /\ std_text = "AAAAA.5"
    /\ std_result = Returned(FALSE)


(***************************************************************************)
(* SOLParser._extract_content.  A document is a record of its paragraphs,  *)
(* each with a text and a style (a record with a name, or None), and its   *)
(* tables, each a sequence of rows, each row the sequence of the texts of  *)
(* its cells.                                                              *)
(***************************************************************************)
\* s.strip(): s without the whitespace at its two ends
RECURSIVE lstrip(_)
lstrip(s) ==
    IF Len(s) > 0 /\ At(s, 1) \in SpaceChars
    THEN lstrip(SubSeq(s, 2, Len(s)))
    ELSE s

RECURSIVE rstrip(_)
rstrip(s) ==
    IF Len(s) > 0 /\ At(s, Len(s)) \in SpaceChars
    THEN rstrip(SubSeq(s, 1, Len(s) - 1))
    ELSE s

strip(s) == rstrip(lstrip(s))

\* para.style.name if para.style else None
style_of(para) ==
    IF para.style = None THEN None ELSE Str(para.style.name)

\* the body of the loop over doc.paragraphs, without the test of the
\* trimmed text
paragraph_step_keeping_empty(para, acc) ==
    LET text == strip(para.text) IN
    [paragraphs |-> Append(acc.paragraphs,
                           [text |-> text, style |-> style_of(para)]),
     standards |-> IF _is_standard(text)
                   THEN Append(acc.standards, text)
                   ELSE acc.standards]

\* the body of the loop over doc.paragraphs, appending a standard only when
\* it is not in the list yet
paragraph_step_unique_standards(para, acc) ==
    LET text == strip(para.text) IN
    IF text # ""
    THEN [paragraphs |-> Append(acc.paragraphs,
                                [text |-> text, style |-> style_of(para)]),
          standards |-> IF /\ _is_standard(text)
                           /\ \A k \in 1..Len(acc.standards) :
                                 acc.standards[k] # text
                        THEN Append(acc.standards, text)
                        ELSE acc.standards]
    ELSE acc

\* the body of the loop over doc.paragraphs; acc holds the lists paragraphs
\* and standards
paragraph_step(para, acc) ==
    LET text == strip(para.text) IN
    IF text # ""
    THEN [paragraphs |-> Append(acc.paragraphs,
                                [text |-> text, style |-> style_of(para)]),
          standards |-> IF _is_standard(text)
                        THEN Append(acc.standards, text)
                        ELSE acc.standards]
    ELSE acc

RECURSIVE paragraph_loop(_, _, _)
paragraph_loop(paras, i, acc) ==
    IF i > Len(paras) THEN acc
    ELSE paragraph_loop(paras, i + 1, paragraph_step(paras[i], acc))

\* [cell.text.strip() for cell in row.cells]
row_data(row) == [c \in 1..Len(row) |-> strip(row[c])]

\* any(row_data): some text of the row is not empty
any(texts) == \E c \in 1..Len(texts) : texts[c] # ""

\* the body of the loop over table.rows, without the test of the row
row_step_keeping_empty(row, table_data) == Append(table_data, row_data(row))

\* the body of the loop over table.rows
row_step(row, table_data) ==
    IF any(row_data(row)) THEN Append(table_data, row_data(row))
    ELSE table_data

RECURSIVE row_loop(_, _, _)
row_loop(rows, r, table_data) ==
    IF r > Len(rows) THEN table_data
    ELSE row_loop(rows, r + 1, row_step(rows[r], table_data))

\* the body of the loop over doc.tables
table_step(table, tables) ==
    LET table_data == row_loop(table, 1, <<>>) IN
    IF table_data # <<>> THEN Append(tables, table_data) ELSE tables

RECURSIVE table_loop(_, _, _)
table_loop(source, t, tables) ==
    IF t > Len(source) THEN tables
    ELSE table_loop(source, t + 1, table_step(source[t], tables))

\* the totals counted on the document instead of on the lists built
_extract_content_counting_source(doc) ==
    LET acc == paragraph_loop(doc.paragraphs, 1,
                              [paragraphs |-> <<>>, standards |-> <<>>])
        tables == table_loop(doc.tables, 1, <<>>)
    IN  [paragraphs |-> acc.paragraphs,
         tables |-> tables,
         identified_standards |-> acc.standards,
         total_paragraphs |-> Len(doc.paragraphs),
         total_tables |-> Len(doc.tables)]

_extract_content(doc) ==
    LET acc == paragraph_loop(doc.paragraphs, 1,
                              [paragraphs |-> <<>>, standards |-> <<>>])
        tables == table_loop(doc.tables, 1, <<>>)
    IN  [paragraphs |-> acc.paragraphs,
         tables |-> tables,
         identified_standards |-> acc.standards,
         total_paragraphs |-> Len(acc.paragraphs),
         total_tables |-> Len(tables)]

\* A document has at most MaxParts paragraphs, tables, rows and cells in
\* all.
MaxParts == 6

Paragraph(text, style) == [text |-> text, style |-> style]
Style(name) == [name |-> name]

ParagraphValues ==
    { Paragraph(" \t", None),
      Paragraph(" 1.1 Count ", Style("Normal")),
      Paragraph("G.5 Solve\n", None),
      Paragraph("Number Sense", Style("Heading 1")) }

CellTexts == { "", " ", " G.5 x " }

RECURSIVE SeqsOf(_, _)
SeqsOf(S, n) ==
    IF n = 0 THEN { <<>> }
    ELSE { Append(q, x) : q \in SeqsOf(S, n - 1), x \in S }

\* the lists of rows that have c rows and cells in all
RECURSIVE RowListsOfCost(_)
RowListsOfCost(c) ==
    IF c = 0 THEN { <<>> }
    ELSE UNION { { <<row>> \o rest : row \in SeqsOf(CellTexts, k - 1),
                                     rest \in RowListsOfCost(c - k) }
                 : k \in 1..c }

RECURSIVE InitTables(_, _, _)
InitTables(paras, tables, budget) ==
    \/ ex_doc = [paragraphs |-> paras, tables |-> tables]
    \/ \E c \in 1..budget : \E table \in RowListsOfCost(c - 1) :
          InitTables(paras, Append(tables, table), budget - c)

RECURSIVE InitParagraphs(_, _)
InitParagraphs(paras, budget) ==
    \/ InitTables(paras, <<>>, budget)
    \/ /\ budget >= 1
       /\ \E para \in ParagraphValues :
             InitParagraphs(Append(paras, para), budget - 1)

InitExtract ==
    /\ InitParagraphs(<<>>, MaxParts)
    /\ content = NotCalled
    /\ IdleFirst
    /\ IdleStandard
    /\ IdleBatch
    /\ IdleParse
    /\ IdleLate

ExtractContent ==
    /\ content = NotCalled
    /\ content' = Returned(_extract_content(ex_doc))
    /\ UNCHANGED <<filename, metadata, gl_n, gl_num, gl_subject, grade_level,
                   data, outcome, standardVars, ex_doc, batchVars, parseVars,
                   lateVars>>

NextExtract == ExtractContent

SpecExtract == InitExtract /\ [][NextExtract]_vars


(***************************************************************************)
(* What the claims about _extract_content speak of, stated without the     *)
(* loops of the code.                                                      *)
(***************************************************************************)
Extracted == content # NotCalled

\* t is s without the whitespace at its two ends
IsTrimOf(t, s) ==
    \E i \in 1..(Len(s) + 1) : \E j \in (i - 1)..Len(s) :
        /\ \A k \in 1..(i - 1) : At(s, k) \in SpaceChars
        /\ \A k \in (j + 1)..Len(s) : At(s, k) \in SpaceChars
        /\ j >= i => (At(s, i) \notin SpaceChars /\ At(s, j) \notin SpaceChars)
        /\ Len(t) = j - i + 1
        /\ \A k \in 1..Len(t) : At(t, k) = At(s, i + k - 1)

\* s is whitespace from end to end
IsBlank(s) == \A k \in 1..Len(s) : At(s, k) \in SpaceChars

\* how many of the first i entries of the sequence q satisfy Keep
KeptBefore(Keep(_), q, i) == Cardinality({ k \in 1..i : Keep(q[k]) })

(***************************************************************************)
(* C13: the record returned by _extract_content has total_paragraphs equal *)
(* to the length of its paragraphs and total_tables equal to the length of *)
(* its tables.                                                             *)
(***************************************************************************)
C13_TotalsAreLengths ==
    Extracted =>
        /\ content.value.total_paragraphs = Len(content.value.paragraphs)
        /\ content.value.total_tables = Len(content.value.tables)

\* a document of which one paragraph and one table are dropped: the totals
\* count what was kept
C13_Witness ==
    /\ Extracted
    /\ Len(ex_doc.paragraphs) = 2
    /\ Len(ex_doc.tables) = 2
    /\ content.value.total_paragraphs = 1
    /\ content.value.total_tables = 1

(***************************************************************************)
(* C14: content.paragraphs is the document's paragraphs, each trimmed,     *)
(* those empty after trimming removed, in document order, repeated texts   *)
(* kept, each with the name of its style or None when it has no style.     *)
(***************************************************************************)
C14_Retained(para) == ~IsBlank(para.text)

C14_ParagraphsAreTrimmedSource ==
    Extracted =>
        LET source == ex_doc.paragraphs
            kept == content.value.paragraphs
        IN  /\ Len(kept) = KeptBefore(C14_Retained, source, Len(source))
            /\ \A i \in 1..Len(source) :
                  C14_Retained(source[i]) =>
                      LET entry == kept[KeptBefore(C14_Retained, source, i)] IN
                      /\ DOMAIN entry = {"text", "style"}
                      /\ IsTrimOf(entry.text, source[i].text)
                      /\ IF source[i].style = None
                         THEN entry.style = None
                         ELSE entry.style = Str(source[i].style.name)

\* the same text twice, a blank paragraph between them, and a paragraph
\* without a style
C14_Witness ==
    /\ Extracted
    /\ ex_doc.paragraphs = << Paragraph(" 1.1 Count ", Style("Normal")),
                              Paragraph(" \t", None),
                              Paragraph(" 1.1 Count ", Style("Normal")),
                              Paragraph("G.5 Solve\n", None) >>
    /\ content.value.paragraphs =
          << [text |-> "1.1 Count", style |-> Str("Normal")],
             [text |-> "1.1 Count", style |-> Str("Normal")],
             [text |-> "G.5 Solve", style |-> None] >>

(***************************************************************************)
(* C15: identified_standards is the texts, as they stand in                *)
(* content.paragraphs, of the retained paragraphs that _is_standard        *)
(* accepts: in their order, repeated texts kept, and a text that is only   *)
(* in a table cell is never among them.                                    *)
(***************************************************************************)
C15_IsStandardEntry(entry) == C17_LooksLikeStandard(entry.text)

C15_StandardsAreAcceptedParagraphs ==
    Extracted =>
        LET kept == content.value.paragraphs
            found == content.value.identified_standards
        IN  /\ Len(found) = KeptBefore(C15_IsStandardEntry, kept, Len(kept))
            /\ \A i \in 1..Len(kept) :
                  C15_IsStandardEntry(kept[i]) =>
                      found[KeptBefore(C15_IsStandardEntry, kept, i)] = kept[i].text
            /\ \A k \in 1..Len(found) :
                  \E i \in 1..Len(kept) : found[k] = kept[i].text

\* two paragraphs with the same standard around one that is none, and a
\* table cell with a standard that no paragraph has
C15_Witness ==
    /\ Extracted
    /\ ex_doc.paragraphs = << Paragraph(" 1.1 Count ", Style("Normal")),
                              Paragraph("Number Sense", Style("Heading 1")),
                              Paragraph(" 1.1 Count ", Style("Normal")) >>
    /\ ex_doc.tables = << << << " G.5 x " >> >> >>
    /\ content.value.identified_standards = << "1.1 Count", "1.1 Count" >>

(***************************************************************************)
(* C16: for the tables, every cell text is trimmed, a row whose cells are  *)
(* all empty after trimming is dropped, and a table left without rows is   *)
(* dropped and not counted in total_tables; the order of tables, rows and  *)
(* cells is kept.                                                          *)
(***************************************************************************)
C16_RowKept(row) == \E c \in 1..Len(row) : ~IsBlank(row[c])
C16_TableKept(table) == \E r \in 1..Len(table) : C16_RowKept(table[r])

C16_TablesAreTrimmedSource ==
    Extracted =>
        LET source == ex_doc.tables
            kept == content.value.tables
        IN  /\ Len(kept) = KeptBefore(C16_TableKept, source, Len(source))
            /\ content.value.total_tables
                  = KeptBefore(C16_TableKept, source, Len(source))
            /\ \A t \in 1..Len(source) :
                  C16_TableKept(source[t]) =>
                      LET table == source[t]
                          table_data == kept[KeptBefore(C16_TableKept, source, t)]
                      IN  /\ Len(table_data)
                                = KeptBefore(C16_RowKept, table, Len(table))
                          /\ \A r \in 1..Len(table) :
                                C16_RowKept(table[r]) =>
                                    LET cells == table_data[KeptBefore(C16_RowKept, table, r)]
                                    IN  /\ Len(cells) = Len(table[r])
                                        /\ \A c \in 1..Len(cells) :
                                              IsTrimOf(cells[c], table[r][c])

\* a table of one blank row, which is dropped, before a table that is kept
C16_Witness ==
    /\ Extracted
    /\ ex_doc.tables = << << << " " >> >>, << << " G.5 x " >> >> >>
    /\ content.value.tables = << << << "G.5 x" >> >> >>
    /\ content.value.total_tables = 1


(***************************************************************************)
(* The two batch loops: OpenAIExtractor.extract_batch, with                *)
(* extract_structured_data inlined, and process_all_documents of           *)
(* batch_process.py.  Every statement that reads a document, calls the     *)
(* model or writes a file either succeeds or raises; what a document holds *)
(* is left out.  pc names the statement the batch is at: "except" is the   *)
(* handler of the loop body, "raised" an exception that left the batch     *)
(* function, "done" its return.                                            *)
(***************************************************************************)
\* A batch has at most MaxFiles documents.
MaxFiles == 3

FileNames == { "a.docx", "b.docx" }

\* response.usage.total_tokens: a number, or None from a server that does
\* not report the usage
TokenValues == { Number(7), None }

notBatchVars ==
    <<filename, metadata, gl_n, gl_num, gl_subject, grade_level, data,
      outcome, standardVars, extractVars, parseVars, lateVars>>

InitBatch ==
    /\ mode \in { "openai", "parser" }
    /\ \E n \in 0..MaxFiles : file_paths \in SeqsOf(FileNames, n)
    /\ save_raw_text \in (IF mode = "openai" THEN BOOLEAN ELSE { FALSE })
    /\ pc = "start"
    /\ idx = 1
    /\ result = NotCalled
    /\ results = <<>>
    /\ successful = 0
    /\ failed = 0
    /\ total_tokens = 0
    /\ combined = NotCalled
    /\ attempts = <<>>
    /\ calls = <<>>
    /\ in_flight = 0
    /\ text_ok = {}
    /\ raw_failed = {}
    /\ IdleFirst
    /\ IdleStandard
    /\ IdleExtract
    /\ IdleParse
    /\ IdleLate

\* batch_process.py returns before the loop when it finds no document;
\* extract_batch has no such test
StartBatch ==
    /\ pc = "start"
    /\ pc' = IF mode = "parser" /\ file_paths = <<>> THEN "done" ELSE "loop"
    /\ UNCHANGED <<mode, file_paths, save_raw_text, idx, result, results,
                   successful, failed, total_tokens, combined, attempts,
                   calls, in_flight, text_ok, raw_failed, notBatchVars>>

\* for idx, file_path in enumerate(..., 1): the body is entered
BeginDocument ==
    /\ pc = "loop"
    /\ idx <= Len(file_paths)
    /\ attempts' = Append(attempts, idx)
    /\ result' = NotCalled
    /\ pc' = IF mode = "openai" THEN "text" ELSE "parse"
    /\ UNCHANGED <<mode, file_paths, save_raw_text, idx, results, successful,
                   failed, total_tokens, combined, calls, in_flight, text_ok,
                   raw_failed, notBatchVars>>

\* doc_text = self.extract_text_from_docx(file_path)
ExtractText ==
    /\ pc = "text"
    /\ \E ok \in BOOLEAN :
          /\ pc' = IF ~ok THEN "except"
                   ELSE IF save_raw_text THEN "raw" ELSE "call"
          /\ text_ok' = IF ok THEN text_ok \cup { idx } ELSE text_ok
    /\ UNCHANGED <<mode, file_paths, save_raw_text, idx, result, results,
                   successful, failed, total_tokens, combined, attempts,
                   calls, in_flight, raw_failed, notBatchVars>>

\* if save_raw_text: the text is written to a .txt file
SaveRawText ==
    /\ pc = "raw"
    /\ \E ok \in BOOLEAN :
          /\ pc' = IF ok THEN "call" ELSE "except"
          /\ raw_failed' = IF ok THEN raw_failed ELSE raw_failed \cup { idx }
    /\ UNCHANGED <<mode, file_paths, save_raw_text, idx, result, results,
                   successful, failed, total_tokens, combined, attempts,
                   calls, in_flight, text_ok, notBatchVars>>

\* self.client.chat.completions.create(...) is entered
IssueModelCall ==
    /\ pc = "call"
    /\ calls' = Append(calls, idx)
    /\ in_flight' = in_flight + 1
    /\ pc' = "wait"
    /\ UNCHANGED <<mode, file_paths, save_raw_text, idx, result, results,
                   successful, failed, total_tokens, combined, attempts,
                   text_ok, raw_failed, notBatchVars>>

\* the call returns a response
ModelCallReturns ==
    /\ pc = "wait"
    /\ in_flight' = in_flight - 1
    /\ pc' = "loads"
    /\ UNCHANGED <<mode, file_paths, save_raw_text, idx, result, results,
                   successful, failed, total_tokens, combined, attempts,
                   calls, text_ok, raw_failed, notBatchVars>>

\* the call raises, and the call is entered again
ModelCallFailsAndRetries ==
    /\ pc = "wait"
    /\ in_flight' = in_flight - 1
    /\ pc' = "call"
    /\ UNCHANGED <<mode, file_paths, save_raw_text, idx, result, results,
                   successful, failed, total_tokens, combined, attempts,
                   calls, text_ok, raw_failed, notBatchVars>>

\* the call raises: except Exception of extract_structured_data prints and
\* raises again
ModelCallFails ==
    /\ pc = "wait"
    /\ in_flight' = in_flight - 1
    /\ pc' = "except"
    /\ UNCHANGED <<mode, file_paths, save_raw_text, idx, result, results,
                   successful, failed, total_tokens, combined, attempts,
                   calls, text_ok, raw_failed, notBatchVars>>

\* result = json.loads(...), result["_extraction_metadata"] = {...} and
\* return result; json.loads may raise
ParseResponse ==
    /\ pc = "loads"
    /\ \/ /\ \E tokens \in TokenValues :
                result' = [source_file |-> file_paths[idx],
                           tokens_used |-> tokens]
          /\ pc' = "write"
       \/ /\ pc' = "except"
          /\ UNCHANGED result
    /\ UNCHANGED <<mode, file_paths, save_raw_text, idx, results, successful,
                   failed, total_tokens, combined, attempts, calls, in_flight,
                   text_ok, raw_failed, notBatchVars>>

\* extract_batch: the open and json.dump of the document's own file
WriteResult ==
    /\ pc = "write"
    /\ \E ok \in BOOLEAN : pc' = IF ok THEN "accumulate" ELSE "except"
    /\ UNCHANGED <<mode, file_paths, save_raw_text, idx, result, results,
                   successful, failed, total_tokens, combined, attempts,
                   calls, in_flight, text_ok, raw_failed, notBatchVars>>

\* batch_process.py: result = parser.parse_document(str(file_path))
ParseDocument ==
    /\ pc = "parse"
    /\ \/ /\ result' = [source_file |-> file_paths[idx]]
          /\ pc' = "save_json"
       \/ /\ pc' = "except"
          /\ UNCHANGED result
    /\ UNCHANGED <<mode, file_paths, save_raw_text, idx, results, successful,
                   failed, total_tokens, combined, attempts, calls, in_flight,
                   text_ok, raw_failed, notBatchVars>>

\* batch_process.py: parser.save_json(result, ...)
SaveJson ==
    /\ pc = "save_json"
    /\ \E ok \in BOOLEAN : pc' = IF ok THEN "save_csv" ELSE "except"
    /\ UNCHANGED <<mode, file_paths, save_raw_text, idx, result, results,
                   successful, failed, total_tokens, combined, attempts,
                   calls, in_flight, text_ok, raw_failed, notBatchVars>>

\* batch_process.py: parser.save_csv(result, ...)
SaveCsv ==
    /\ pc = "save_csv"
    /\ \E ok \in BOOLEAN : pc' = IF ok THEN "accumulate" ELSE "except"
    /\ UNCHANGED <<mode, file_paths, save_raw_text, idx, result, results,
                   successful, failed, total_tokens, combined, attempts,
                   calls, in_flight, text_ok, raw_failed, notBatchVars>>

\* results.append(result); successful += 1; and in extract_batch
\* total_tokens += result["_extraction_metadata"]["tokens_used"], which
\* raises TypeError when tokens_used is None
Accumulate ==
    /\ pc = "accumulate"
    /\ results' = Append(results, result)
    /\ successful' = successful + 1
    /\ IF mode = "openai" /\ result.tokens_used = None
       THEN /\ pc' = "except"
            /\ UNCHANGED <<total_tokens, idx>>
       ELSE /\ total_tokens' = IF mode = "openai"
                               THEN total_tokens + result.tokens_used.value
                               ELSE total_tokens
            /\ idx' = idx + 1
            /\ pc' = "loop"
    /\ UNCHANGED <<mode, file_paths, save_raw_text, result, failed, combined,
                   attempts, calls, in_flight, text_ok, raw_failed,
                   notBatchVars>>

\* the exception leaves the batch function instead of being handled
HandleFailureAborting ==
    /\ pc = "except"
    /\ pc' = "raised"
    /\ UNCHANGED <<mode, file_paths, save_raw_text, idx, result, results,
                   successful, failed, total_tokens, combined, attempts,
                   calls, in_flight, text_ok, raw_failed, notBatchVars>>

\* except Exception as e: failed += 1, and the loop goes on
HandleFailure ==
    /\ pc = "except"
    /\ failed' = failed + 1
    /\ idx' = idx + 1
    /\ pc' = "loop"
    /\ UNCHANGED <<mode, file_paths, save_raw_text, result, results,
                   successful, total_tokens, combined, attempts, calls,
                   in_flight, text_ok, raw_failed, notBatchVars>>

\* the summary that extract_batch builds
combined_openai ==
    [total_documents |-> Len(file_paths),
     successful |-> successful,
     failed |-> failed,
     total_tokens_used |-> total_tokens,
     documents |-> results]

\* the summary that batch_process.py builds, without its processed_date
combined_output ==
    [total_documents |-> Len(file_paths),
     successful |-> successful,
     failed |-> failed,
     documents |-> results]

\* after the loop: the combined JSON file is written
WriteCombined ==
    /\ pc = "loop"
    /\ idx > Len(file_paths)
    /\ \/ /\ combined' = Returned(IF mode = "openai" THEN combined_openai
                                  ELSE combined_output)
          /\ pc' = IF mode = "openai" THEN "done" ELSE "combined_csv"
       \/ /\ pc' = "raised"
          /\ UNCHANGED combined
    /\ UNCHANGED <<mode, file_paths, save_raw_text, idx, result, results,
                   successful, failed, total_tokens, attempts, calls,
                   in_flight, text_ok, raw_failed, notBatchVars>>

\* batch_process.py: create_combined_csv(all_results, ...)
CreateCombinedCsv ==
    /\ pc = "combined_csv"
    /\ \E ok \in BOOLEAN : pc' = IF ok THEN "done" ELSE "raised"
    /\ UNCHANGED <<mode, file_paths, save_raw_text, idx, result, results,
                   successful, failed, total_tokens, combined, attempts,
                   calls, in_flight, text_ok, raw_failed, notBatchVars>>

NextBatch ==
    \/ StartBatch
    \/ BeginDocument
    \/ ExtractText
    \/ SaveRawText
    \/ IssueModelCall
    \/ ModelCallReturns
    \/ ModelCallFails
    \/ ParseResponse
    \/ WriteResult
    \/ ParseDocument
    \/ SaveJson
    \/ SaveCsv
    \/ Accumulate
    \/ HandleFailure
    \/ WriteCombined
    \/ CreateCombinedCsv

SpecBatch == InitBatch /\ [][NextBatch]_vars


(***************************************************************************)
(* C18: in both batch loops a failure on one document does not abort the   *)
(* batch: the documents are attempted once each in list order, whatever    *)
(* fails; an exception leaves the batch only from the writing of the       *)
(* combined output, after the last document; the results of earlier        *)
(* documents stay as they are, the list only grows at its end; and the     *)
(* batch that returns has written the combined output over all the         *)
(* documents (batch_process.py returns without it when it found no         *)
(* document at all).                                                       *)
(***************************************************************************)
\* the sequence a begins the sequence b
IsPrefixSeq(a, b) ==
    /\ Len(a) <= Len(b)
    /\ \A k \in 1..Len(a) : a[k] = b[k]

\* the batch returned before its loop
C18_FoundNothing == mode = "parser" /\ file_paths = <<>>

C18_EveryDocumentAttempted ==
    /\ Len(attempts) <= Len(file_paths)
    /\ \A k \in 1..Len(attempts) : attempts[k] = k
    /\ (pc \in { "combined_csv", "raised", "done" } /\ ~C18_FoundNothing) =>
          Len(attempts) = Len(file_paths)
    /\ (pc = "done" /\ mode # "none" /\ ~C18_FoundNothing) =>
          /\ combined # NotCalled
          /\ combined.value.total_documents = Len(file_paths)
          /\ combined.value.documents = results
          /\ combined.value.failed = failed

C18_FailureDoesNotAbort ==
    /\ [] C18_EveryDocumentAttempted
    /\ [][IsPrefixSeq(results, results')]_vars

\* extract_batch over three documents of which the first and the last
\* failed
C18_Witness ==
    /\ mode = "openai"
    /\ pc = "done"
    /\ attempts = << 1, 2, 3 >>
    /\ failed = 2
    /\ Len(results) = 1
    /\ combined # NotCalled
    /\ combined.value.documents = << [source_file |-> file_paths[2],
                                     tokens_used |-> Number(7)] >>

\* process_all_documents over three documents of which the second failed
C18_WitnessParser ==
    /\ mode = "parser"
    /\ pc = "done"
    /\ attempts = << 1, 2, 3 >>
    /\ failed = 1
    /\ combined # NotCalled
    /\ combined.value.documents = << [source_file |-> file_paths[1]],
                                     [source_file |-> file_paths[3]] >>

(***************************************************************************)
(* C19, as the specification states it: in extract_batch at most one model *)
(* call is in flight, the calls are issued in the order of the documents,  *)
(* no document has more than one call, and a document whose iteration is   *)
(* over has had exactly one call when its text extraction succeeded and    *)
(* none when it failed.                                                    *)
(***************************************************************************)
\* how many model calls were issued for the document at index i
CallsFor(i) == Cardinality({ k \in 1..Len(calls) : calls[k] = i })

C19_Sequential ==
    /\ in_flight \in { 0, 1 }
    /\ in_flight = 1 <=> pc = "wait"
    /\ in_flight = 1 => calls[Len(calls)] = idx
    /\ \A k \in 1..(Len(calls) - 1) : calls[k] < calls[k + 1]
    /\ \A i \in 1..Len(file_paths) : CallsFor(i) <= 1

C19_OneCallPerExtractedText ==
    mode = "openai" =>
        /\ C19_Sequential
        /\ \A i \in 1..Len(file_paths) :
              i < idx => CallsFor(i) = (IF i \in text_ok THEN 1 ELSE 0)

(***************************************************************************)
(* C19, amended: as above, but a document whose iteration is over has had  *)
(* exactly one call when its text extraction succeeded and, if the raw     *)
(* text was to be saved, that file was written; none when either failed.   *)
(***************************************************************************)
C19_OneCallPerPreparedText ==
    mode = "openai" =>
        /\ C19_Sequential
        /\ \A i \in 1..Len(file_paths) :
              i < idx => CallsFor(i) = (IF i \in text_ok /\ i \notin raw_failed
                                        THEN 1 ELSE 0)

\* three documents: no text for the first, no raw text file for the second,
\* a failed call for the third
C19_Witness ==
    /\ mode = "openai"
    /\ pc = "done"
    /\ save_raw_text
    /\ Len(file_paths) = 3
    /\ text_ok = { 2, 3 }
    /\ raw_failed = { 2 }
    /\ calls = << 3 >>
    /\ failed = 3


(***************************************************************************)
(* SOLParser.parse_document, called again and again on one parser object.  *)
(* A call gets a path and the document that python-docx reads there; a     *)
(* document that cannot be read makes the call raise.                      *)
(***************************************************************************)
\* the position of the last "/" of path s at or before position i, or 0
RECURSIVE LastSlash(_, _)
LastSlash(s, i) ==
    IF i = 0 THEN 0
    ELSE IF At(s, i) = "/" THEN i
    ELSE LastSlash(s, i - 1)

\* Path(file_path).name: what follows the last separator
PathName(file_path) ==
    SubSeq(file_path, LastSlash(file_path, Len(file_path)) + 1, Len(file_path))

\* parse_document keeping the document it read in self.current_doc
parse_document_keeping_doc(self, file_path, doc) ==
    [self |-> [self EXCEPT !.current_doc = doc],
     value |-> [metadata |-> _parse_filename(PathName(file_path)),
                content |-> _extract_content(doc),
                source_file |-> PathName(file_path)]]

\* parse_document(self, file_path), where doc is Document(file_path): the
\* object after the call and the record returned
parse_document(self, file_path, doc) ==
    [self |-> self,
     value |-> [metadata |-> _parse_filename(PathName(file_path)),
                content |-> _extract_content(doc),
                source_file |-> PathName(file_path)]]

\* One parser object gets at most MaxCalls calls.
MaxCalls == 3

ParsePaths ==
    { "7-Algebra-2023-Approved-Math-SOL.docx",
      "sol_documents/3. Grade 2 Mathematics Instructional Guide.docx",
      "in/sol_documents/notes.docx" }

ParseDocuments ==
    { EmptyDocument,
      [paragraphs |-> << Paragraph(" 1.1 Count ", Style("Normal")),
                         Paragraph(" \t", None) >>,
       tables |-> << << << " G.5 x ", "" >> >> >>],
      [paragraphs |-> << Paragraph("Number Sense", Style("Heading 1")),
                         Paragraph("G.5 Solve\n", None) >>,
       tables |-> <<>>] }

InitParse ==
    /\ parser = NewParser
    /\ parsed = <<>>
    /\ returned = <<>>
    /\ IdleFirst
    /\ IdleStandard
    /\ IdleExtract
    /\ IdleBatch
    /\ IdleLate

\* a call that returns
ParseDocumentReturns ==
    /\ Len(parsed) < MaxCalls
    /\ \E file_path \in ParsePaths : \E doc \in ParseDocuments :
          LET call == parse_document(parser, file_path, doc) IN
          /\ parser' = call.self
          /\ returned' = Append(returned, call.value)
          /\ parsed' = Append(parsed, [file_path |-> file_path, doc |-> doc,
                                       readable |-> TRUE])
    /\ UNCHANGED <<filename, metadata, gl_n, gl_num, gl_subject, grade_level,
                   data, outcome, standardVars, extractVars, batchVars,
                   lateVars>>

\* a call whose Document(file_path) raises: nothing after it runs
ParseDocumentRaises ==
    /\ Len(parsed) < MaxCalls
    /\ \E file_path \in ParsePaths :
          parsed' = Append(parsed, [file_path |-> file_path,
                                    doc |-> EmptyDocument,
                                    readable |-> FALSE])
    /\ UNCHANGED <<filename, metadata, gl_n, gl_num, gl_subject, grade_level,
                   data, outcome, standardVars, extractVars, batchVars,
                   parser, returned, lateVars>>

NextParse == ParseDocumentReturns \/ ParseDocumentRaises

SpecParse == InitParse /\ [][NextParse]_vars

(***************************************************************************)
(* C20: the record parse_document returns depends on the document's        *)
(* content and filename only: it is the record a new parser returns for    *)
(* them, whatever the parser processed before and in whatever order; and a *)
(* call leaves the parser's current_doc as __init__ set it and the records *)
(* returned earlier as they were.                                          *)
(***************************************************************************)
\* the calls that returned, in order
C20_Readable == SelectSeq(parsed, LAMBDA call : call.readable)

C20_RecordOfNewParser(call) ==
    parse_document(NewParser, call.file_path, call.doc).value

C20_FreshPerDocument ==
    /\ parser = NewParser
    /\ Len(returned) = Len(C20_Readable)
    /\ \A k \in 1..Len(returned) :
          /\ returned[k] = C20_RecordOfNewParser(C20_Readable[k])
          /\ returned[k].source_file = PathName(C20_Readable[k].file_path)
          /\ \A j \in 1..Len(returned) :
                (/\ C20_Readable[j].doc = C20_Readable[k].doc
                 /\ PathName(C20_Readable[j].file_path)
                       = PathName(C20_Readable[k].file_path))
                => returned[j] = returned[k]

C20_NoSharedState ==
    /\ [] C20_FreshPerDocument
    /\ [][IsPrefixSeq(returned, returned') /\ parser' = parser]_vars

\* the same document parsed first and last, with another one between
C20_Witness ==
    /\ Len(returned) = 3
    /\ parsed[1] = parsed[3]
    /\ parsed[2].doc # parsed[1].doc
    /\ parsed[2].file_path # parsed[1].file_path
    /\ returned[1] = returned[3]
    /\ returned[2] # returned[1]
    /\ returned[1].content.total_paragraphs = 1


(***************************************************************************)
(* SOLParser.save_csv: the text that csv.writer puts in the file.          *)
(***************************************************************************)
\* dict.get(key, default)
get(d, key, default) == IF key \in DOMAIN d THEN d[key] ELSE default

\* the characters that make csv.writer quote a field: the delimiter, the
\* quote character and those of the line terminator
CsvSpecialChars == { ",", "\"", "\r", "\n" }

\* s with every quote character written twice
RECURSIVE double_quotes(_)
double_quotes(s) ==
    IF s = "" THEN ""
    ELSE (IF At(s, 1) = "\"" THEN "\"\"" ELSE At(s, 1))
         \o double_quotes(SubSeq(s, 2, Len(s)))

\* a field written as it is, whatever characters it has
csv_field_unquoted(s) == s

\* a field as csv.writer writes it (QUOTE_MINIMAL)
csv_field(s) ==
    IF \E k \in 1..Len(s) : At(s, k) \in CsvSpecialChars
    THEN "\"" \o double_quotes(s) \o "\""
    ELSE s

\* writer.writerow(fields): the fields joined by commas, then "\r\n"
RECURSIVE csv_join(_, _)
csv_join(fields, k) ==
    IF k > Len(fields) THEN ""
    ELSE (IF k > 1 THEN "," ELSE "") \o csv_field(fields[k])
         \o csv_join(fields, k + 1)

writerow(fields) == csv_join(fields, 1) \o "\r\n"

csv_header == << "Standard", "Source", "Grade Level", "Subject" >>

\* the row written for one entry of identified_standards
csv_standard_row(d, standard) ==
    << standard,
       d.source_file,
       get(d.metadata, "grade_level", "Unknown"),
       get(d.metadata, "subject", "Mathematics") >>

RECURSIVE csv_standard_rows(_, _)
csv_standard_rows(d, k) ==
    IF k > Len(d.content.identified_standards) THEN ""
    ELSE writerow(csv_standard_row(d, d.content.identified_standards[k]))
         \o csv_standard_rows(d, k + 1)

\* the text of the file after save_csv(d, output_path)
save_csv(d) == writerow(csv_header) \o csv_standard_rows(d, 1)

\* A document saved as CSV has at most MaxRows paragraphs.
MaxRows == 3

CsvParagraphTexts ==
    { "1.1 Count, compare", " G.5 Solve ", "2.3a say \"x\"",
      "Number Sense", "1.1 Line\nbreak" }

CsvPaths ==
    { "out/7-Algebra-2023-Approved-Math-SOL.docx",
      "3. Grade 2 Mathematics Instructional Guide.docx",
      "notes, v2.docx",
      "tmp_k3j2.docx" }

InitCsv ==
    /\ \E file_path \in CsvPaths : \E n \in 0..MaxRows :
       \E texts \in SeqsOf(CsvParagraphTexts, n) :
          csv_data = parse_document(
                         NewParser, file_path,
                         [paragraphs |-> [k \in 1..n |->
                                              Paragraph(texts[k], None)],
                          tables |-> <<>>]).value
    /\ csv_file = NotCalled
    /\ IdleFirst
    /\ IdleStandard
    /\ IdleExtract
    /\ IdleBatch
    /\ IdleParse
    /\ IdleStructured
    /\ IdleFlat
    /\ IdleUpload

SaveCsvFile ==
    /\ csv_file = NotCalled
    /\ csv_file' = Returned(save_csv(csv_data))
    /\ UNCHANGED <<filename, metadata, gl_n, gl_num, gl_subject, grade_level,
                   data, outcome, standardVars, extractVars, batchVars,
                   parseVars, csv_data, structuredVars, flatVars,
                   uploadVars>>

NextCsv == SaveCsvFile

SpecCsv == InitCsv /\ [][NextCsv]_vars

(***************************************************************************)
(* Reading a CSV text back: the rows and fields that the text stands for   *)
(* (fields separated by commas, rows ended by "\r\n", a field in quotes    *)
(* holding any character, a quote in it written twice).                    *)
(***************************************************************************)
\* s with every doubled quote character written once
RECURSIVE single_quotes(_)
single_quotes(s) ==
    IF s = "" THEN ""
    ELSE IF Len(s) >= 2 /\ SubSeq(s, 1, 2) = "\"\""
    THEN "\"" \o single_quotes(SubSeq(s, 3, Len(s)))
    ELSE At(s, 1) \o single_quotes(SubSeq(s, 2, Len(s)))

\* the field that starts at position pos of text, and the position behind it
ReadCsvField(text, pos) ==
    IF pos <= Len(text) /\ At(text, pos) = "\""
    THEN \* in quotes: up to the first quote that ends an odd run of quotes
         LET close == Lowest({ q \in (pos + 1)..Len(text) :
                                /\ At(text, q) = "\""
                                /\ (q = Len(text) \/ At(text, q + 1) # "\"")
                                /\ Cardinality({ k \in (pos + 1)..q :
                                                   At(text, k) = "\"" }) % 2 = 1 })
         IN  [value |-> single_quotes(SubSeq(text, pos + 1, close - 1)),
              next |-> close + 1]
    ELSE LET end == Lowest({ q \in pos..Len(text) :
                              \/ At(text, q) = ","
                              \/ /\ At(text, q) = "\r"
                                 /\ q < Len(text)
                                 /\ At(text, q + 1) = "\n" }
                          \cup { Len(text) + 1 })
         IN  [value |-> SubSeq(text, pos, end - 1), next |-> end]

\* fields holds the fields read of the row at hand, rows the rows before it
RECURSIVE ReadCsvFrom(_, _, _, _)
ReadCsvFrom(text, pos, fields, rows) ==
    IF pos > Len(text) THEN rows
    ELSE LET field == ReadCsvField(text, pos) IN
         IF field.next <= Len(text) /\ At(text, field.next) = ","
         THEN ReadCsvFrom(text, field.next + 1,
                          Append(fields, field.value), rows)
         ELSE ReadCsvFrom(text, field.next + 2, <<>>,
                          Append(rows, Append(fields, field.value)))

ReadCsv(text) == ReadCsvFrom(text, 1, <<>>, <<>>)

(***************************************************************************)
(* C21: the file that save_csv writes holds the header row Standard,       *)
(* Source, Grade Level, Subject and then one row per entry of              *)
(* identified_standards, in the same order, repeated entries kept; the     *)
(* columns of a row are the entry, source_file, the metadata's grade_level *)
(* or "Unknown" when it has none, and the metadata's subject or            *)
(* "Mathematics" when it has none, so Unknown metadata gives Unknown and   *)
(* Mathematics.                                                            *)
(***************************************************************************)
Saved == csv_file # NotCalled

C21_RowsPerStandard ==
    Saved =>
        LET rows == ReadCsv(csv_file.value)
            found == csv_data.content.identified_standards
            meta == csv_data.metadata
        IN  /\ Len(rows) = 1 + Len(found)
            /\ rows[1] = << "Standard", "Source", "Grade Level", "Subject" >>
            /\ \A k \in 1..Len(found) :
                  /\ Len(rows[k + 1]) = 4
                  /\ rows[k + 1][1] = found[k]
                  /\ rows[k + 1][2] = csv_data.source_file
                  /\ rows[k + 1][3] = (IF "grade_level" \in DOMAIN meta
                                       THEN meta.grade_level ELSE "Unknown")
                  /\ rows[k + 1][4] = (IF "subject" \in DOMAIN meta
                                       THEN meta.subject ELSE "Mathematics")
            /\ meta.type = "Unknown" =>
                  \A k \in 1..Len(found) :
                      rows[k + 1][3] = "Unknown" /\ rows[k + 1][4] = "Mathematics"

\* a document with Unknown metadata and the same standard twice, with a
\* comma in it
C21_Witness ==
    /\ Saved
    /\ csv_data.metadata.type = "Unknown"
    /\ csv_data.content.identified_standards
          = << "1.1 Count, compare", "G.5 Solve", "1.1 Count, compare" >>
    /\ ReadCsv(csv_file.value)[4]
          = << "1.1 Count, compare", "tmp_k3j2.docx", "Unknown", "Mathematics" >>


(***************************************************************************)
(* OpenAIExtractor.extract_structured_data, from the response of the model *)
(* on: json.loads has made a value of the response's content, the          *)
(* metadata of the extraction is put into it and it is returned.           *)
(***************************************************************************)
\* a float, kept as the text of its literal
Float(t) == [kind |-> "float", text |-> t]

\* the dict assigned to result["_extraction_metadata"]
extraction_metadata(file_path, model, temperature, usage) ==
    Dict([source_file |-> Str(PathName(file_path)),
          model |-> Str(model),
          temperature |-> Float(temperature),
          tokens_used |-> Number(usage.total_tokens),
          prompt_tokens |-> Number(usage.prompt_tokens),
          completion_tokens |-> Number(usage.completion_tokens)])

\* x[key] = value on a dict x
set_item(x, key, value) ==
    Dict([k \in DOMAIN x.items \cup { key } |->
             IF k = key THEN value ELSE x.items[k]])

\* x.setdefault(key, value) on a dict x: a value already there stays
set_default(x, key, value) ==
    Dict([k \in DOMAIN x.items \cup { key } |->
             IF k \in DOMAIN x.items THEN x.items[k] ELSE value])

\* lines 131-141 with setdefault in the place of the assignment
inject_metadata_keeping_own(loaded, meta) ==
    IF loaded.kind = "dict"
    THEN Returned(set_default(loaded, "_extraction_metadata", meta))
    ELSE Raised("TypeError")

\* lines 131-141: the assignment raises TypeError on a value that is no
\* dict, and except Exception raises it again
inject_metadata(loaded, meta) ==
    IF loaded.kind = "dict"
    THEN Returned(set_item(loaded, "_extraction_metadata", meta))
    ELSE Raised("TypeError")

\* The three counters of response.usage are in 0..MaxTokens.
MaxTokens == 2

StructuredPaths ==
    { "7-Algebra-2023-Approved-Math-SOL.docx",
      "in/sol_documents/notes.docx" }

ModelNames == { "gpt-4o-mini", "gpt-4o" }

Temperatures == { "0.1", "0.7" }

Usages ==
    [total_tokens : 0..MaxTokens, prompt_tokens : 0..MaxTokens,
     completion_tokens : 0..MaxTokens]

\* what the model answered, as json.loads returns it
LoadedValues ==
    { Dict(<<>>),
      Dict([strands |-> List(<<>>)]),
      Dict([document_metadata |-> Dict([subject |-> Str("Mathematics")]),
            strands |-> List(<< Dict(StrandFields(List(<<>>))) >>)]),
      Dict([_extraction_metadata |-> Dict([source_file |-> Str("other.docx"),
                                           cost |-> Number(1)]),
            strands |-> List(<<>>)]),
      Dict([_extraction_metadata |-> Str("none"), model |-> Str("x")]),
      List(<<>>),
      List(<< Dict([strands |-> List(<<>>)]) >>),
      Str("strands"),
      Number(1),
      None }

InitStructured ==
    /\ sd_file_path \in StructuredPaths
    /\ sd_model \in ModelNames
    /\ sd_temperature \in Temperatures
    /\ sd_usage \in Usages
    /\ sd_loaded \in LoadedValues
    /\ sd_result = NotCalled
    /\ IdleFirst
    /\ IdleStandard
    /\ IdleExtract
    /\ IdleBatch
    /\ IdleParse
    /\ IdleCsv
    /\ IdleFlat
    /\ IdleUpload

InjectMetadata ==
    /\ sd_result = NotCalled
    /\ sd_result' = inject_metadata(
                        sd_loaded,
                        extraction_metadata(sd_file_path, sd_model,
                                            sd_temperature, sd_usage))
    /\ UNCHANGED <<filename, metadata, gl_n, gl_num, gl_subject, grade_level,
                   data, outcome, standardVars, extractVars, batchVars,
                   parseVars, csvVars, sd_file_path, sd_model, sd_temperature,
                   sd_usage, sd_loaded, flatVars, uploadVars>>

NextStructured == InjectMetadata

SpecStructured == InitStructured /\ [][NextStructured]_vars

(***************************************************************************)
(* C22: a result that extract_structured_data returns is the JSON object   *)
(* of the model with _extraction_metadata put in: an object of exactly the *)
(* six fields source_file (the base name of the path), model, temperature, *)
(* tokens_used, prompt_tokens and completion_tokens.  It stands in the     *)
(* place of an _extraction_metadata of the model's own, and every other    *)
(* field is as the model returned it.  A value that is no object is never  *)
(* returned.                                                               *)
(***************************************************************************)
\* name is what follows the last "/" of path
C22_IsBaseName(name, path) ==
    /\ \A k \in 1..Len(name) : At(name, k) # "/"
    /\ \/ path = name
       \/ /\ Len(path) > Len(name)
          /\ SubSeq(path, Len(path) - Len(name), Len(path)) = "/" \o name

C22_MetadataFields ==
    { "source_file", "model", "temperature", "tokens_used", "prompt_tokens",
      "completion_tokens" }

C22_MetadataInjected ==
    /\ (sd_result # NotCalled /\ sd_result.how = "raise") =>
          sd_loaded.kind # "dict"
    /\ (sd_result # NotCalled /\ sd_result.how = "return") =>
          LET value == sd_result.value
              meta == value.items["_extraction_metadata"]
          IN  /\ sd_loaded.kind = "dict"
              /\ value.kind = "dict"
              /\ DOMAIN value.items
                    = DOMAIN sd_loaded.items \cup { "_extraction_metadata" }
              /\ \A k \in DOMAIN sd_loaded.items \ { "_extraction_metadata" } :
                    value.items[k] = sd_loaded.items[k]
              /\ meta.kind = "dict"
              /\ DOMAIN meta.items = C22_MetadataFields
              /\ meta.items["source_file"].kind = "str"
              /\ C22_IsBaseName(meta.items["source_file"].text, sd_file_path)
              /\ meta.items["model"] = Str(sd_model)
              /\ meta.items["temperature"] = Float(sd_temperature)
              /\ meta.items["tokens_used"] = Number(sd_usage.total_tokens)
              /\ meta.items["prompt_tokens"] = Number(sd_usage.prompt_tokens)
              /\ meta.items["completion_tokens"]
                    = Number(sd_usage.completion_tokens)

\* the model returned an _extraction_metadata of its own for a document in
\* a directory
C22_Witness ==
    /\ sd_result # NotCalled
    /\ sd_result.how = "return"
    /\ sd_file_path = "in/sol_documents/notes.docx"
    /\ "_extraction_metadata" \in DOMAIN sd_loaded.items
    /\ sd_loaded.items["_extraction_metadata"].kind = "dict"
    /\ sd_result.value.items["_extraction_metadata"].items["source_file"]
          = Str("notes.docx")
    /\ sd_result.value.items["strands"] = sd_loaded.items["strands"]
    /\ sd_usage.total_tokens # sd_usage.prompt_tokens


(***************************************************************************)
(* OpenAIExtractor.extract_text_from_docx: the text of a document that is  *)
(* sent to the model.                                                      *)
(***************************************************************************)
\* sub in s, for two str
in_str(sub, s) ==
    \E k \in 1..(Len(s) - Len(sub) + 1) :
        SubSeq(s, k, k + Len(sub) - 1) = sub

\* sep.join(parts)
RECURSIVE join(_, _, _)
join(sep, parts, k) ==
    IF k > Len(parts) THEN ""
    ELSE (IF k > 1 THEN sep ELSE "") \o parts[k] \o join(sep, parts, k + 1)

\* para.style.name if para.style else "Normal"
style_name_of(para) ==
    IF para.style = None THEN "Normal" ELSE para.style.name

\* the body of the loop over doc.paragraphs, marking a paragraph whose
\* style has the word in any case ("Subtitle" too)
flat_paragraph_step_any_case(para, text_parts) ==
    LET text == strip(para.text)
        style_name == style_name_of(para)
    IN  IF text = "" THEN text_parts
        ELSE IF \/ in_str("Head", style_name) \/ in_str("head", style_name)
                \/ in_str("Title", style_name) \/ in_str("title", style_name)
        THEN Append(text_parts, "\n### " \o text \o " ###\n")
        ELSE Append(text_parts, text)

\* the body of the loop over doc.paragraphs
flat_paragraph_step(para, text_parts) ==
    LET text == strip(para.text)
        style_name == style_name_of(para)
    IN  IF text = "" THEN text_parts
        ELSE IF in_str("Head", style_name) \/ in_str("Title", style_name)
        THEN Append(text_parts, "\n### " \o text \o " ###\n")
        ELSE Append(text_parts, text)

RECURSIVE flat_paragraph_loop(_, _, _)
flat_paragraph_loop(paras, i, text_parts) ==
    IF i > Len(paras) THEN text_parts
    ELSE flat_paragraph_loop(paras, i + 1,
                             flat_paragraph_step(paras[i], text_parts))

\* " | ".join(cell.text.strip() for cell in row.cells)
row_text_of(row) == join(" | ", row_data(row), 1)

\* the body of the loop over table.rows, leaving out a row whose cells are
\* all empty
flat_row_step_any(row, text_parts) ==
    IF any(row_data(row)) THEN Append(text_parts, row_text_of(row))
    ELSE text_parts

\* the body of the loop over table.rows
flat_row_step(row, text_parts) ==
    IF strip(row_text_of(row)) # "" THEN Append(text_parts, row_text_of(row))
    ELSE text_parts

RECURSIVE flat_row_loop(_, _, _)
flat_row_loop(rows, r, text_parts) ==
    IF r > Len(rows) THEN text_parts
    ELSE flat_row_loop(rows, r + 1, flat_row_step(rows[r], text_parts))

\* the body of the loop over doc.tables
flat_table_step(table, text_parts) ==
    Append(flat_row_loop(table, 1, Append(text_parts, "\n[TABLE]")),
           "[/TABLE]\n")

RECURSIVE flat_table_loop(_, _, _)
flat_table_loop(source, t, text_parts) ==
    IF t > Len(source) THEN text_parts
    ELSE flat_table_loop(source, t + 1, flat_table_step(source[t], text_parts))

\* text_parts at the return statement
text_parts_of(doc) ==
    flat_table_loop(doc.tables, 1, flat_paragraph_loop(doc.paragraphs, 1, <<>>))

\* extract_text_from_docx(file_path), where doc is Document(file_path)
extract_text_from_docx(doc) == join("\n", text_parts_of(doc), 1)

\* A flattened document has at most MaxFlatParts paragraphs, tables, rows
\* and cells in all.
MaxFlatParts == 5

FlatParagraphValues ==
    { Paragraph(" \t", Style("Heading 1")),
      Paragraph(" 1.1 Count ", Style("Normal")),
      Paragraph("Number Sense", Style("Heading 1")),
      Paragraph("Grade 1", Style("Subtitle")),
      Paragraph("SOL\n", Style("Title")),
      Paragraph("G.5 Solve", None) }

RECURSIVE InitFlatTables(_, _, _)
InitFlatTables(paras, tables, budget) ==
    \/ flat_doc = [paragraphs |-> paras, tables |-> tables]
    \/ \E c \in 1..budget : \E table \in RowListsOfCost(c - 1) :
          InitFlatTables(paras, Append(tables, table), budget - c)

RECURSIVE InitFlatParagraphs(_, _)
InitFlatParagraphs(paras, budget) ==
    \/ InitFlatTables(paras, <<>>, budget)
    \/ /\ budget >= 1
       /\ \E para \in FlatParagraphValues :
             InitFlatParagraphs(Append(paras, para), budget - 1)

InitFlat ==
    /\ InitFlatParagraphs(<<>>, MaxFlatParts)
    /\ flat_text = NotCalled
    /\ IdleFirst
    /\ IdleStandard
    /\ IdleExtract
    /\ IdleBatch
    /\ IdleParse
    /\ IdleCsv
    /\ IdleStructured
    /\ IdleUpload

ExtractTextFromDocx ==
    /\ flat_text = NotCalled
    /\ flat_text' = Returned(extract_text_from_docx(flat_doc))
    /\ UNCHANGED <<filename, metadata, gl_n, gl_num, gl_subject, grade_level,
                   data, outcome, standardVars, extractVars, batchVars,
                   parseVars, csvVars, structuredVars, flat_doc,
                   uploadVars>>

NextFlat == ExtractTextFromDocx

SpecFlat == InitFlat /\ [][NextFlat]_vars


(***************************************************************************)
(* C23: the text extract_text_from_docx returns is, joined by newlines:    *)
(* the non-empty trimmed paragraphs in document order, one whose style     *)
(* name contains "Head" or "Title" wrapped as "### text ###" between       *)
(* newlines and any other as it is; then for every table in document order *)
(* a [TABLE] marker, its rows and a [/TABLE] marker, also when no row is   *)
(* emitted.  A row is its trimmed cells joined by " | "; it is left out    *)
(* only when that text is blank, which is when it has no cell or a single  *)
(* blank cell: a row of two or more cells is emitted even when all are     *)
(* empty.                                                                  *)
(***************************************************************************)
Flattened == flat_text # NotCalled

\* f applied to every entry of the sequence q
MapSeq(f(_), q) == [k \in 1..Len(q) |-> f(q[k])]

\* the sequences of the sequence qs, one after the other
RECURSIVE ConcatAll(_, _)
ConcatAll(qs, k) == IF k > Len(qs) THEN <<>> ELSE qs[k] \o ConcatAll(qs, k + 1)

C23_IsHeading(para) ==
    /\ para.style # None
    /\ \E k \in 1..Len(para.style.name) :
          \/ /\ k + 3 <= Len(para.style.name)
             /\ SubSeq(para.style.name, k, k + 3) = "Head"
          \/ /\ k + 4 <= Len(para.style.name)
             /\ SubSeq(para.style.name, k, k + 4) = "Title"

C23_ParagraphPart(para) ==
    IF C23_IsHeading(para) THEN "\n### " \o strip(para.text) \o " ###\n"
    ELSE strip(para.text)

C23_RowEmitted(row) ==
    \/ Len(row) >= 2
    \/ Len(row) = 1 /\ ~IsBlank(row[1])

C23_RowPart(row) == join(" | ", MapSeq(strip, row), 1)

C23_TableParts(table) ==
    << "\n[TABLE]" >> \o MapSeq(C23_RowPart, SelectSeq(table, C23_RowEmitted))
       \o << "[/TABLE]\n" >>

C23_Parts ==
    MapSeq(C23_ParagraphPart, SelectSeq(flat_doc.paragraphs, C14_Retained))
       \o ConcatAll(MapSeq(C23_TableParts, flat_doc.tables), 1)

C23_FlattenedText ==
    Flattened => flat_text.value = join("\n", C23_Parts, 1)

\* a heading, and a table whose one row has two empty cells
C23_Witness ==
    /\ Flattened
    /\ flat_doc.paragraphs = << Paragraph("Number Sense", Style("Heading 1")) >>
    /\ flat_doc.tables = << << << "", " " >> >> >>
    /\ flat_text.value
          = "\n### Number Sense ###\n\n\n[TABLE]\n | \n[/TABLE]\n"

\* a paragraph of style Subtitle is not wrapped, and a table without rows
\* has its two markers
C23_WitnessSubtitle ==
    /\ Flattened
    /\ flat_doc.paragraphs = << Paragraph("Grade 1", Style("Subtitle")) >>
    /\ flat_doc.tables = << <<>> >>
    /\ flat_text.value = "Grade 1\n\n[TABLE]\n[/TABLE]\n"



(***************************************************************************)
(* C24: a filename of the form <num>-<year>-Approved-Math-SOL.docx, with   *)
(* no subject segment between the number and the four-digit year (such as  *)
(* "1-2023-Approved-Math-SOL.docx"), is matched by pattern 1 and           *)
(* classified as Approved SOL Standards.                                   *)
(***************************************************************************)
C24_NoSubjectName(name) ==
    \E k \in 1..Len(name) :
        /\ IsDigits(SubSeq(name, 1, k))
        /\ Len(name) >= k + 5
        /\ At(name, k + 1) = "-"
        /\ IsDigits(SubSeq(name, k + 2, k + 5))
        /\ SubSeq(name, k + 6, Len(name)) = "-Approved-Math-SOL.docx"

C24_NoSubjectIsApproved ==
    (Classified /\ C24_NoSubjectName(filename)) =>
        /\ re_match(sol_pattern, filename).ok
        /\ metadata.type = "Approved SOL Standards"


(***************************************************************************)
(* C25: after each iteration of a batch loop, and in the summary of the    *)
(* batch that finished its n documents, successful + failed is the number  *)
(* of documents processed (total_documents = n at the end), documents has  *)
(* successful entries, which are results of processed documents in input   *)
(* order, and total_tokens_used is the sum of their tokens_used; also when *)
(* a document fails after its result was produced, in the file write or in *)
(* the token accumulation.                                                 *)
(***************************************************************************)
RECURSIVE C25_InOrder(_, _, _)
\* docs from entry k on are results of documents from..upto, in that order
C25_InOrder(docs, k, from) ==
    \/ k > Len(docs)
    \/ \E i \in from..(idx - 1) :
          /\ docs[k].source_file = file_paths[i]
          /\ C25_InOrder(docs, k + 1, i + 1)

RECURSIVE C25_TokenSum(_, _)
C25_TokenSum(docs, k) ==
    IF k > Len(docs) THEN 0
    ELSE (IF docs[k].tokens_used = None THEN 0
          ELSE docs[k].tokens_used.value) + C25_TokenSum(docs, k + 1)

\* the relations, of the counters and list of the loop after idx - 1
\* documents
C25_Relations(n_successful, n_failed, docs, tokens) ==
    /\ n_successful + n_failed = idx - 1
    /\ Len(docs) = n_successful
    /\ C25_InOrder(docs, 1, 1)
    /\ mode = "openai" => tokens = C25_TokenSum(docs, 1)

C25_CountsAddUp ==
    /\ pc = "loop" => C25_Relations(successful, failed, results, total_tokens)
    /\ (pc = "done" /\ combined # NotCalled) =>
          /\ combined.value.total_documents = Len(file_paths)
          /\ idx - 1 = Len(file_paths)
          /\ C25_Relations(combined.value.successful, combined.value.failed,
                           combined.value.documents,
                           IF mode = "openai"
                           THEN combined.value.total_tokens_used ELSE 0)


(***************************************************************************)
(* process_documents of app.py, the upload application's path without the  *)
(* language model: each uploaded file is written to a temporary file,      *)
(* which parse_document then reads.  An uploaded file is its name and what *)
(* python-docx makes of its bytes; up_pc names the statement the function  *)
(* is at, "except" being the handler of the loop body.                     *)
(***************************************************************************)
\* At most MaxUploads files are uploaded together.
MaxUploads == 2

\* one name of each filename pattern, 1 to 4, and one of none
UploadNames ==
    { "7-Algebra-2023-Approved-Math-SOL.docx",
      "1. Grade 1 Mathematics Instructional Guide.docx",
      "12-AFDA-Understanding the Standards.docx",
      "11. Algebra 2 Mathematics Instructional Guide.docx",
      "notes.docx" }

\* what Document() makes of the bytes of an upload, when it can read them
UploadDocuments ==
    { [paragraphs |-> << Paragraph(" 1.1 Count ", Style("Normal")) >>,
       tables |-> <<>>] }

UploadedFiles ==
    { [name |-> name, readable |-> TRUE, doc |-> doc] :
          name \in UploadNames, doc \in UploadDocuments }
    \cup { [name |-> name, readable |-> FALSE, doc |-> EmptyDocument] :
               name \in UploadNames }

\* tempfile.gettempdir()
TempDirs == { "/tmp", "/var/folders/q4/T" }

\* the eight characters, of a-z 0-9 and _, that tempfile draws for a name
TempRandomNames == { "k3j2x9_a", "7_grade1" }

\* tempfile.NamedTemporaryFile(delete=False, suffix='.docx').name: the
\* directory, the prefix "tmp", the characters drawn and the suffix
NamedTemporaryFile(dir, drawn) == dir \o "/" \o "tmp" \o drawn \o ".docx"

notUploadVars ==
    <<filename, metadata, gl_n, gl_num, gl_subject, grade_level, data,
      outcome, standardVars, extractVars, batchVars, parseVars, csvVars,
      structuredVars, flatVars>>

InitUpload ==
    /\ \E n \in 0..MaxUploads : uploaded_files \in SeqsOf(UploadedFiles, n)
    /\ up_parser = NewParser
    /\ up_pc = "start"
    /\ up_idx = 1
    /\ tmp_path = NotCalled
    /\ all_results = <<>>
    /\ parsed_uploads = <<>>
    /\ IdleFirst
    /\ IdleStandard
    /\ IdleExtract
    /\ IdleBatch
    /\ IdleParse
    /\ IdleCsv
    /\ IdleStructured
    /\ IdleFlat

\* parser = SOLParser(); all_results = []
StartUpload ==
    /\ up_pc = "start"
    /\ up_pc' = "loop"
    /\ UNCHANGED <<uploaded_files, up_parser, up_idx, tmp_path, all_results,
                   parsed_uploads, notUploadVars>>

\* for idx, uploaded_file in enumerate(uploaded_files): the body is entered
BeginUpload ==
    /\ up_pc = "loop"
    /\ up_idx <= Len(uploaded_files)
    /\ up_pc' = "temp"
    /\ UNCHANGED <<uploaded_files, up_parser, up_idx, tmp_path, all_results,
                   parsed_uploads, notUploadVars>>

\* the upload is written to a file named as it was uploaded
SaveTemporaryNamedAsUpload ==
    /\ up_pc = "temp"
    /\ \/ /\ \E dir \in TempDirs :
                tmp_path' = Returned(dir \o "/" \o uploaded_files[up_idx].name)
          /\ up_pc' = "parse"
       \/ /\ up_pc' = "except"
          /\ UNCHANGED tmp_path
    /\ UNCHANGED <<uploaded_files, up_parser, up_idx, all_results,
                   parsed_uploads, notUploadVars>>

\* with tempfile.NamedTemporaryFile(...) as tmp_file: the upload's bytes are
\* written and tmp_path = tmp_file.name; creating or writing may raise
SaveTemporary ==
    /\ up_pc = "temp"
    /\ \/ /\ \E dir \in TempDirs : \E drawn \in TempRandomNames :
                tmp_path' = Returned(NamedTemporaryFile(dir, drawn))
          /\ up_pc' = "parse"
       \/ /\ up_pc' = "except"
          /\ UNCHANGED tmp_path
    /\ UNCHANGED <<uploaded_files, up_parser, up_idx, all_results,
                   parsed_uploads, notUploadVars>>

\* result = parser.parse_document(tmp_path); all_results.append(result).
\* Document(tmp_path) raises on bytes that are no document
ParseUpload ==
    /\ up_pc = "parse"
    /\ LET uploaded_file == uploaded_files[up_idx] IN
       IF uploaded_file.readable
       THEN LET call == parse_document(up_parser, tmp_path.value,
                                       uploaded_file.doc)
            IN  /\ up_parser' = call.self
                /\ all_results' = Append(all_results, call.value)
                /\ parsed_uploads' =
                      Append(parsed_uploads,
                             [name |-> uploaded_file.name,
                              tmp_path |-> tmp_path.value])
                /\ up_pc' = "unlink"
       ELSE /\ up_pc' = "except"
            /\ UNCHANGED <<up_parser, all_results, parsed_uploads>>
    /\ UNCHANGED <<uploaded_files, up_idx, tmp_path, notUploadVars>>

\* Path(tmp_path).unlink(), which may raise
UnlinkTemporary ==
    /\ up_pc = "unlink"
    /\ \/ /\ up_pc' = "loop"
          /\ up_idx' = up_idx + 1
       \/ /\ up_pc' = "except"
          /\ UNCHANGED up_idx
    /\ UNCHANGED <<uploaded_files, up_parser, tmp_path, all_results,
                   parsed_uploads, notUploadVars>>

\* except Exception as e: st.error(...), and the loop goes on
ReportUploadError ==
    /\ up_pc = "except"
    /\ up_idx' = up_idx + 1
    /\ up_pc' = "loop"
    /\ UNCHANGED <<uploaded_files, up_parser, tmp_path, all_results,
                   parsed_uploads, notUploadVars>>

\* after the loop: display_results(all_results, output_format)
DisplayResults ==
    /\ up_pc = "loop"
    /\ up_idx > Len(uploaded_files)
    /\ up_pc' = "done"
    /\ UNCHANGED <<uploaded_files, up_parser, up_idx, tmp_path, all_results,
                   parsed_uploads, notUploadVars>>

NextUpload ==
    \/ StartUpload
    \/ BeginUpload
    \/ SaveTemporary
    \/ ParseUpload
    \/ UnlinkTemporary
    \/ ReportUploadError
    \/ DisplayResults

SpecUpload == InitUpload /\ [][NextUpload]_vars

(***************************************************************************)
(* C26: process_documents runs parse_document on the path of the temporary *)
(* copy, so that the classifier sees the temporary file's name and never   *)
(* the uploaded one: every record in all_results has metadata of type      *)
(* Unknown and source_file the name of the temporary file, whatever the    *)
(* name of the upload, a name of pattern 1 to 4 included.                  *)
(***************************************************************************)
C26_TemporaryNameClassified ==
    /\ Len(all_results) = Len(parsed_uploads)
    /\ \A k \in 1..Len(all_results) :
          LET temporary == PathName(parsed_uploads[k].tmp_path) IN
          /\ all_results[k].metadata = [type |-> "Unknown",
                                         filename |-> temporary]
          /\ all_results[k].source_file = temporary
          /\ temporary # parsed_uploads[k].name
          /\ IsPrefix("tmp", temporary)

\* an upload named by pattern 1 and one named by pattern 3, both parsed
C26_Witness ==
    /\ up_pc = "done"
    /\ Len(all_results) = 2
    /\ parsed_uploads[1].name = "7-Algebra-2023-Approved-Math-SOL.docx"
    /\ parsed_uploads[2].name = "12-AFDA-Understanding the Standards.docx"
    /\ FormsAtStart(parsed_uploads[1].name) = { 1 }
    /\ FormsAtStart(parsed_uploads[2].name) = { 3 }
    /\ all_results[1].metadata.type = "Unknown"
    /\ all_results[2].source_file = "tmp7_grade1.docx"


(***************************************************************************)
(* C27: for a filename handled by pattern 1, 3 or 4 whose captured number  *)
(* n is in 1..18, grade_level is determined by n alone and ignores the     *)
(* captured subject: filenames of these patterns with the same number and  *)
(* other subjects get the same grade_level, which can differ from the      *)
(* subject the file names ("12-AFDA-Understanding the Standards.docx" gets *)
(* "Algebra 2", "11. Algebra 2 Mathematics Instructional Guide.docx" gets  *)
(* "AFDA"); the captured subject is the grade_level only when n is 0 or    *)
(* above 18.                                                               *)
(***************************************************************************)
\* the record is that of pattern 1, 3 or 4
C27_BySubjectPattern ==
    /\ Classified
    /\ metadata.type \in { "Approved SOL Standards",
                           "Understanding the Standards",
                           "Instructional Guide" }
    /\ "grade" \notin DOMAIN metadata

\* names of patterns 1, 3 and 4 with other subjects, after the number
C27_OtherSubjects ==
    { "-Geometry-2023-Approved-Math-SOL.docx",
      "-AFDA-Understanding the Standards.docx",
      "-Biology-Understanding the Standards.docx",
      ". Algebra 2 Mathematics Instructional Guide.docx" }

C27_NumberDecides ==
    /\ C27_BySubjectPattern =>
          LET n == int(metadata.number) IN
          IF n \in 1..18
          THEN /\ metadata.grade_level = C6_Expected(n, "")
               /\ \A body \in C27_OtherSubjects :
                     LET other == _parse_filename(metadata.number \o body)
                     IN  /\ other.number = metadata.number
                         /\ other.subject # "Mathematics"
                         /\ other.grade_level = metadata.grade_level
          ELSE metadata.grade_level = metadata.subject
    /\ (Classified /\ filename = "12-AFDA-Understanding the Standards.docx")
          => metadata.grade_level = "Algebra 2"
    /\ (Classified
          /\ filename = "11. Algebra 2 Mathematics Instructional Guide.docx")
          => metadata.grade_level = "AFDA"

\* the subject AFDA under number 12
C27_Witness ==
    /\ Classified
    /\ filename = "12-AFDA-Understanding the Standards.docx"
    /\ metadata.number = "12"
    /\ metadata.subject = "AFDA"
    /\ metadata.grade_level = "Algebra 2"

\* a number above the table: the subject is the grade_level
C27_WitnessAboveTable ==
    /\ Classified
    /\ filename = "19. Biology Mathematics Instructional Guide.docx"
    /\ metadata.grade_level = "Biology"


(***************************************************************************)
(* C28: _is_standard returns False for every text that begins with an      *)
(* identifier of the form the extraction schema documents ("1.NS.1",       *)
(* "A.EO.1": digits or one to four uppercase letters, a dot, uppercase     *)
(* letters, a dot, digits), whatever follows it, since neither pattern     *)
(* takes a letter right after the first dot; a paragraph that starts with  *)
(* such an identifier is kept as a paragraph and never added to            *)
(* identified_standards.                                                   *)
(***************************************************************************)
\* text begins with n characters of cls, a dot, m uppercase letters, a dot
\* and a digit
C28_BeginsWith(text, cls, n, m) ==
    /\ n + m + 3 <= Len(text)
    /\ AllInClass(cls, text, 1, n)
    /\ At(text, n + 1) = "."
    /\ AllInClass("upper", text, n + 2, n + m + 1)
    /\ At(text, n + m + 2) = "."
    /\ At(text, n + m + 3) \in DigitChars

C28_SchemaIdentifier(text) ==
    \E m \in 1..Len(text) :
        \/ \E n \in 1..4 : C28_BeginsWith(text, "upper", n, m)
        \/ \E n \in 1..Len(text) : C28_BeginsWith(text, "d", n, m)

\* the document of one paragraph
C28_DocumentOf(text) ==
    [paragraphs |-> << Paragraph(text, None) >>, tables |-> <<>>]

C28_SchemaIdentifierRejected ==
    C28_SchemaIdentifier(std_text) =>
        /\ std_result # NotCalled => std_result = Returned(FALSE)
        /\ std_more_result # NotCalled => std_more_result = Returned(FALSE)
        /\ std_result # NotCalled =>
              LET extracted == _extract_content(C28_DocumentOf(std_text))
              IN  /\ extracted.paragraphs
                        = << [text |-> strip(std_text), style |-> None] >>
                  /\ extracted.identified_standards = <<>>

\* the first identifier the schema gives, alone and with text behind it
C28_Witness ==
    /\ std_text = "1.NS.1"
    /\ std_more = " x"
    /\ std_result = Returned(FALSE)
    /\ std_more_result = Returned(FALSE)

\* the second identifier the schema gives
C28_WitnessLetters ==
    /\ std_text = "A.EO.1"
    /\ std_result = Returned(FALSE)

====
